---- MODULE Spec2Model ----
(***************************************************************************)
(* workers-sentinel: the per-project state engine (ProjectState durable    *)
(* object) and the fingerprinter that feeds it.                            *)
(*                                                                         *)
(* Strings are sequences of character codes, so that the djb2 hash of the  *)
(* fingerprinter is computed, not assumed.  An absent (undefined, null) or *)
(* empty string is the empty sequence: JavaScript treats both as falsy and *)
(* Array.join prints both as "".  An optional object (event.user,          *)
(* exception.values[0]) is a sequence of length 0 or 1.                    *)
(***************************************************************************)
EXTENDS Integers, Sequences, FiniteSets, TLC

VARIABLES
    issues,     \* rows of table issues
    events,     \* rows of table events
    stats,      \* rows of table issue_stats
    users,      \* rows of table issue_users
    now,        \* the wall clock read by new Date()
    pending,    \* ingest calls suspended in `await this.hashUserIdentifier`
    nIngest,    \* number of ingest calls received (also numbers the UUIDs drawn)
    nAdmin,     \* number of update_issue and delete_issue calls received
    deleted,    \* ids of the issues delete_issue removed
    received,   \* the events handed to handleIngest so far, with the event id used
    last,       \* the most recent call on the shard and its outcome
    route,      \* the ingestion request the coordinator is serving: <<>> or its loop
    calls,      \* the shard ingests that request issued, in order
    resp,       \* the response to the most recent ingestion request
    nRequest,   \* number of ingestion requests received
    request,    \* the most recent ingestion request: <<>> or <<the request>>
    manage,     \* the most recent management request and its response
    accounts,   \* registry: rows of table users
    sessions,   \* registry: rows of table sessions
    registering, \* registry: register calls suspended in `await this.hashPassword`
    authLast,   \* registry: the most recent call on users and sessions and its outcome
    loggedOut,  \* the tokens logout was called with
    nAuth,      \* number of register and login calls received (numbers the keys drawn)
    projects,   \* registry: rows of table projects
    members,    \* registry: rows of table project_members
    projLast,   \* registry: the most recent call on projects and its outcome
    gone,       \* the ids of the projects delete-project answered success for
    nProject,   \* number of create-project calls received
    statusSet,  \* issue id and status of the update_issue calls answered 200, the
                \* latest of each issue
    sharding,   \* the Project Shard objects: which one the shard variables hold, the
                \* other one, the latest call and the project it was addressed to,
                \* the suspended ingests and the ids each project's ingests stored
    arrivals    \* the ingests the shard received, in order: the issue each one was
                \* filed under and the time of the server when it arrived

shardVars == <<issues, events, stats, users, now, pending, nIngest, nAdmin, deleted, received, last>>
routeVars == <<route, calls, resp, nRequest, request>>
authVars == <<accounts, sessions, registering, authLast, loggedOut, nAuth>>
projectVars == <<projects, members, projLast, gone, nProject>>
registryVars == <<authVars, projectVars>>
vars == <<shardVars, routeVars, manage, registryVars, statusSet, sharding, arrivals>>

----------------------------------------------------------------------------
(* Bounds of the model *)

MaxIngest == 3
MaxClock == 2
MaxPending == 1
MaxAdmin == 1
MaxRequest == 2
MaxAuth == 3
MaxProject == 2
MaxShardIngest == 2

----------------------------------------------------------------------------
(* Strings *)

None == <<>>

Truthy(s) == s # None

\* a || b on strings
OrElse(a, b) == IF Truthy(a) THEN a ELSE b

RECURSIVE Join(_, _)
Join(parts, sep) ==
    IF Len(parts) = 0 THEN <<>>
    ELSE IF Len(parts) = 1 THEN parts[1]
    ELSE parts[1] \o sep \o Join(Tail(parts), sep)

RECURSIVE SplitFirst(_, _)
\* s.split(c)[0]
SplitFirst(s, c) ==
    IF Len(s) = 0 \/ <<s[1]>> = c THEN <<>>
    ELSE <<s[1]>> \o SplitFirst(Tail(s), c)

RECURSIVE DecimalString(_)
\* String(n) for a positive integer
DecimalString(n) ==
    IF n < 10 THEN <<48 + n>>
    ELSE DecimalString(n \div 10) \o <<48 + (n % 10)>>

S_Error == <<69, 114, 114, 111, 114>>
S_error == <<101, 114, 114, 111, 114>>
S_bars == <<124, 124>>
S_colon == <<58>>
S_uuid == <<60, 117, 117, 105, 100, 62>>
S_num == <<60, 110, 117, 109, 62>>
S_query == <<63>>
S_fragment == <<35>>
S_space == <<32>>
S_colonSpace == <<58, 32>>
S_dots == <<46, 46, 46>>
S_default == <<123, 123, 32, 100, 101, 102, 97, 117, 108, 116, 32, 125, 125>>
S_UnknownError == <<85, 110, 107, 110, 111, 119, 110, 32, 69, 114, 114, 111, 114>>
S_id == <<60, 105, 100, 62>>
S_timestamp == <<60, 116, 105, 109, 101, 115, 116, 97, 109, 112, 62>>
S_ip == <<60, 105, 112, 62>>
S_email == <<60, 101, 109, 97, 105, 108, 62>>

\* s.slice(0, n)
Slice(s, n) == IF Len(s) > n THEN SubSeq(s, 1, n) ELSE s

\* [...array].reverse()
Reverse(seq) == [i \in 1..Len(seq) |-> seq[Len(seq) + 1 - i]]

----------------------------------------------------------------------------
(* Fingerprinter *)

Word16 == 256 * 256

RECURSIVE Xor(_, _)
\* bitwise a ^ b on non-negative integers
Xor(a, b) ==
    IF b = 0 THEN a
    ELSE IF a = 0 THEN b
    ELSE ((a + b) % 2) + 2 * Xor(a \div 2, b \div 2)

\* one round of djb2: hash = (hash * 33) ^ code, kept to 32 bits as the
\* pair <<high 16 bits, low 16 bits>>
HashStep(h, code) ==
    LET lo33 == h[2] * 33
        hi33 == h[1] * 33 + (lo33 \div Word16)
    IN  <<hi33 % Word16, Xor(lo33 % Word16, code)>>

RECURSIVE HashFrom(_, _, _)
\* the rounds from character i on; the test of h[1] has h computed at every round
HashFrom(h, str, i) ==
    IF h[1] < 0 \/ i > Len(str) THEN h
    ELSE HashFrom(HashStep(h, str[i]), str, i + 1)

\* the 32-bit value printed as 8 hex digits is given as <<high, low>>
simpleHash(str) == HashFrom(<<0, 5381>>, str, 1)

hashArray(parts) == simpleHash(Join(parts, S_bars))

(* A message is a sequence of words separated by single spaces.  A word is  *)
(* [k, s]: s is its text and k tells which of normalizeMessage's patterns   *)
(* the text matches ("lit" when none does).                                 *)
Placeholder(k) ==
    CASE k = "uuid" -> S_uuid
      [] k = "id" -> S_id
      [] k = "num" -> S_num
      [] k = "timestamp" -> S_timestamp
      [] k = "ip" -> S_ip
      [] k = "email" -> S_email

MessageText(msg) == Join([i \in 1..Len(msg) |-> msg[i].s], S_space)

MaxNormalized == 500

normalizeMessage(msg) ==
    Slice(Join([i \in 1..Len(msg) |->
                   IF msg[i].k = "lit" THEN msg[i].s ELSE Placeholder(msg[i].k)],
               S_space),
          MaxNormalized)

formatFrame(frame) ==
    Join( (IF Truthy(frame.filename)
             THEN <<SplitFirst(SplitFirst(frame.filename, S_query), S_fragment)>>
             ELSE <<>>)
          \o (IF Truthy(frame.function) THEN <<frame.function>> ELSE <<>>)
          \o (IF frame.lineno # 0 THEN <<DecimalString(frame.lineno)>> ELSE <<>>),
          S_colon)

InApp(f) == f.in_app # "false"

\* stacktrace is <<>> when absent, else <<[frames |-> ...]>>
getTopFrames(stacktrace, count) ==
    IF Len(stacktrace) = 0 \/ Len(stacktrace[1].frames) = 0 THEN <<>>
    ELSE LET frames == Reverse(stacktrace[1].frames)
             inAppFrames == SelectSeq(frames, InApp)
         IN  IF Len(inAppFrames) > 0 THEN Slice(inAppFrames, count)
             ELSE Slice(frames, count)

TopFrameCount == 3

NotDefault(f) == f # S_default

\* the tuple that exception-based grouping hashes
ExceptionParts(exc) ==
    LET topFrames == getTopFrames(exc.stacktrace, TopFrameCount)
    IN  <<OrElse(exc.type, S_Error), normalizeMessage(exc.value)>>
        \o [i \in 1..Len(topFrames) |-> formatFrame(topFrames[i])]

\* the fallback taken for every event
generateFingerprintById(event) == hashArray(<<event.event_id>>)

generateFingerprint(event) ==
    LET nonDefault == SelectSeq(event.fingerprint, NotDefault)
    IN  IF Len(event.fingerprint) > 0 /\ Len(nonDefault) > 0
          THEN hashArray(nonDefault)
        ELSE IF Len(event.exception) > 0
          THEN hashArray(ExceptionParts(event.exception[1]))
        ELSE IF Len(event.message) > 0
          THEN hashArray(<<OrElse(event.level, S_error), normalizeMessage(event.message)>>)
        ELSE hashArray(<<event.event_id>>)

TitleValueMax == 100
TitleMessageMax == 128

extractTitle(event) ==
    IF Len(event.exception) > 0
      THEN LET exc == event.exception[1]
               value == MessageText(exc.value)
               truncatedValue == IF Len(value) > TitleValueMax
                                   THEN SubSeq(value, 1, TitleValueMax - 3) \o S_dots
                                   ELSE value
           IN  OrElse(exc.type, S_Error) \o S_colonSpace \o truncatedValue
    ELSE IF Len(event.message) > 0
      THEN LET m == MessageText(event.message)
           IN  IF Len(m) > TitleMessageMax
                 THEN SubSeq(m, 1, TitleMessageMax - 3) \o S_dots
                 ELSE m
    ELSE S_UnknownError

----------------------------------------------------------------------------
(* The events the SDKs send.  An event is                                   *)
(*   [event_id, timestamp, level, fingerprint, exception, message, user]    *)
(* timestamp: 0 when absent, negative when Date cannot parse it, else the   *)
(* instant on the scale of the clock.                                       *)

Word(s) == [k |-> "lit", s |-> s]

Id_e1 == <<101, 49>>
Id_e2 == <<101, 50>>
Id_e3 == <<101, 51>>

S_TypeError == <<84, 121, 112, 101, 69, 114, 114, 111, 114>>
S_appjs == <<97, 46, 106, 115, 63, 118, 61, 49>>
S_libjs == <<108, 46, 106, 115>>
S_run == <<114, 117, 110>>
S_job == <<106, 111, 98>>
S_custom == <<99, 117, 115, 116, 111, 109>>
S_hello == <<104, 101, 108, 108, 111>>
S_u1 == <<117, 49>>
S_u2 == <<117, 50>>
NumA == <<49, 50, 51, 52, 53, 54>>
NumB == <<54, 53, 52, 51, 50, 49, 48>>

\* "a.js?v=1" in run, line 42, in the application; "l.js", of a library
FrameApp == [filename |-> S_appjs, function |-> S_run, lineno |-> 42, in_app |-> "true"]
FrameLib == [filename |-> S_libjs, function |-> None, lineno |-> 0, in_app |-> "false"]

\* "job 123456" and "job 6543210": numbers of six digits or more
ValueA == <<Word(S_job), [k |-> "num", s |-> NumA]>>
ValueB == <<Word(S_job), [k |-> "num", s |-> NumB]>>

Exc(value) ==
    <<[type |-> S_TypeError, value |-> value,
       stacktrace |-> <<[frames |-> <<FrameApp, FrameLib>>]>>]>>

User1 == <<[id |-> S_u1, email |-> None, ip_address |-> None, username |-> None]>>
User2 == <<[id |-> None, email |-> S_u2, ip_address |-> None, username |-> None]>>
UserAnon == <<[id |-> None, email |-> None, ip_address |-> None, username |-> None]>>

Event(id, ts, fp, exc, msg, user) ==
    [event_id |-> id, timestamp |-> ts, level |-> None, environment |-> None,
     fingerprint |-> fp, exception |-> exc, message |-> msg, user |-> user]

EventInputs ==
    \* the same exception under three event ids, without a user and from two users
    { Event(Id_e1, 1, <<>>, Exc(ValueA), <<>>, <<>>),
      Event(Id_e2, 1, <<>>, Exc(ValueA), <<>>, <<>>),
      Event(Id_e3, 1, <<>>, Exc(ValueA), <<>>, <<>>),
      Event(Id_e1, 1, <<>>, Exc(ValueA), <<>>, User1),
      Event(Id_e2, 1, <<>>, Exc(ValueA), <<>>, User1),
      Event(Id_e3, 1, <<>>, Exc(ValueA), <<>>, User2),
      Event(Id_e2, 3, <<>>, Exc(ValueB), <<>>, <<>>),            \* another number, another hour
      Event(Id_e3, 1, <<S_default, S_custom>>, Exc(ValueA), <<>>, <<>>), \* explicit fingerprint
      Event(Id_e1, 0 - 1, <<>>, Exc(ValueA), <<>>, <<>>),        \* unparsable timestamp
      Event(None, 0, <<>>, <<>>, <<>>, <<>>),                    \* no id, no timestamp, no content
      Event(Id_e1, 1, <<>>, <<>>, <<>>, <<>>),                   \* no content
      Event(Id_e3, 1, <<>>, <<>>, <<Word(S_hello)>>, UserAnon) } \* message, user without identifier

S_warning == <<119, 97, 114, 110, 105, 110, 103>>
S_prod == <<112, 114, 111, 100>>
S_staging == <<115, 116, 97, 103, 105, 110, 103>>

\* events with a level and an environment: two of one issue, from production
\* and without environment, and a warning of another issue from staging
FilterInputs ==
    { [Event(Id_e1, 1, <<>>, Exc(ValueA), <<>>, <<>>) EXCEPT !.environment = S_prod],
      Event(Id_e3, 1, <<>>, Exc(ValueA), <<>>, <<>>),
      [Event(Id_e2, 1, <<S_default, S_custom>>, Exc(ValueA), <<>>, <<>>)
          EXCEPT !.level = S_warning, !.environment = S_staging] }

\* crypto.randomUUID() of the coordinator: request n, item k
RandomUuid(n, k) == <<117>> \o DecimalString(n) \o DecimalString(k)

\* extractEvents gives an event without id a drawn one, and one without
\* timestamp the time of the call
EnsureEvent(event, n, k, t) ==
    LET withId == IF Truthy(event.event_id) THEN event
                  ELSE [event EXCEPT !.event_id = RandomUuid(n, k)]
    IN  IF withId.timestamp # 0 THEN withId ELSE [withId EXCEPT !.timestamp = t]

\* the events as they reach the shard: as sent, or through extractEvents
EnsuredInputs ==
    {EnsureEvent(event, n, k, t) :
        event \in EventInputs, n \in 1..MaxRequest, k \in 1..MaxIngest, t \in 1..MaxClock}

\* the fingerprint and the title of each of them, computed once
FingerprintOf ==
    [event \in EventInputs \cup EnsuredInputs \cup FilterInputs |-> generateFingerprint(event)]
TitleOf ==
    [event \in EventInputs \cup EnsuredInputs \cup FilterInputs |-> extractTitle(event)]

----------------------------------------------------------------------------
(* Project shard: the four tables and the SQL the handlers run on them *)

HourLen == 2

StatusInputs == {"", "resolved", "archived"}

\* crypto.randomUUID(): the n-th call of the shard draws a value drawn by no other
RandomIssueId(n) == n
RandomEventId(n) == <<103>> \o DecimalString(n)

\* SELECT id, count FROM issues WHERE fingerprint = ?
SelectIssueByFingerprint(rows, fp) == {r \in rows : r.fingerprint = fp}

\* the same UPDATE, leaving last_seen as it is
UpdateIssueCount(rows, id, t) ==
    {IF r.id = id THEN [r EXCEPT !.count = @ + 1] ELSE r : r \in rows}

\* the same UPDATE, reopening the issue
UpdateIssueSeenReopen(rows, id, t) ==
    {IF r.id = id THEN [r EXCEPT !.last_seen = t, !.count = @ + 1, !.status = "unresolved"]
       ELSE r : r \in rows}

\* UPDATE issues SET last_seen = ?, count = count + 1 WHERE id = ?
UpdateIssueSeen(rows, id, t) ==
    {IF r.id = id THEN [r EXCEPT !.last_seen = t, !.count = @ + 1] ELSE r : r \in rows}

\* the same row, first seen at the time the event carries
NewIssueAtEventTime(id, fp, event, t) ==
    [id |-> id, fingerprint |-> fp, title |-> TitleOf[event],
     level |-> OrElse(event.level, S_error),
     first_seen |-> IF event.timestamp > 0 THEN event.timestamp ELSE t, last_seen |-> t,
     count |-> 1, user_count |-> 0, status |-> "unresolved"]

\* the row of INSERT INTO issues
NewIssue(id, fp, event, t) ==
    [id |-> id, fingerprint |-> fp, title |-> TitleOf[event],
     level |-> OrElse(event.level, S_error), first_seen |-> t, last_seen |-> t,
     count |-> 1, user_count |-> 0, status |-> "unresolved"]

\* step 3 of ingest: the issue of the fingerprint is bumped, or created
UpsertIssueAlwaysInsert(rows, event, fp, newId, t) ==
    [issues |-> rows \cup {NewIssue(newId, fp, event, t)}, issueId |-> newId]

UpsertIssue(rows, event, fp, newId, t) ==
    LET existingRows == SelectIssueByFingerprint(rows, fp)
    IN  IF existingRows # {}
          THEN LET issueId == (CHOOSE r \in existingRows : TRUE).id
               IN  [issues |-> UpdateIssueSeen(rows, issueId, t), issueId |-> issueId]
          ELSE [issues |-> rows \cup {NewIssue(newId, fp, event, t)}, issueId |-> newId]

\* the row of INSERT INTO events
\* the row, filed under the first issue
EventRowFirstIssue(eventId, issueId, timestamp, t, event) ==
    [id |-> eventId, issue_id |-> RandomIssueId(1), timestamp |-> timestamp,
     received_at |-> t, data |-> event]

EventRow(eventId, issueId, timestamp, t, event) ==
    [id |-> eventId, issue_id |-> issueId, timestamp |-> timestamp,
     received_at |-> t, data |-> event]

\* a table events without PRIMARY KEY
EventIdNeverStored(rows, eventId) == FALSE

\* events.id is the PRIMARY KEY: the INSERT throws when the id is stored
EventIdStored(rows, eventId) == \E r \in rows : r.id = eventId

\* new Date(timestamp).toISOString() throws a RangeError on an invalid date
InvalidDate(timestamp) == timestamp < 0

getHourBucket(timestamp) == timestamp - (timestamp % HourLen)

\* INSERT INTO issue_stats ... ON CONFLICT (issue_id, bucket) DO UPDATE SET count = count + 1
UpsertStat(rows, issueId, bucket) ==
    IF \E r \in rows : r.issue_id = issueId /\ r.bucket = bucket
      THEN {IF r.issue_id = issueId /\ r.bucket = bucket
              THEN [r EXCEPT !.count = @ + 1] ELSE r : r \in rows}
      ELSE rows \cup {[issue_id |-> issueId, bucket |-> bucket, count |-> 1]}

UserIdentifier(user) ==
    OrElse(user.id, OrElse(user.email, OrElse(user.ip_address, user.username)))

\* the first 32 hex digits of SHA-256: one value per identifier
Sha256Prefix(identifier) == <<"sha256">> \o identifier

\* null is the empty sequence
hashUserIdentifier(user) ==
    IF Len(user) = 0 THEN None
    ELSE IF ~Truthy(UserIdentifier(user[1])) THEN None
    ELSE Sha256Prefix(UserIdentifier(user[1]))

\* a cursor read that gives no row where one() throws on an empty result
OneOrNone(rows) ==
    IF Cardinality(rows) <= 1
      THEN [threw |-> FALSE, row |-> IF rows = {} THEN <<>> ELSE <<CHOOSE r \in rows : TRUE>>]
      ELSE [threw |-> TRUE, row |-> <<>>]

\* SqlStorageCursor.one(): the row when the result has exactly one row; it throws
\* when the result has no row or several
One(rows) ==
    IF Cardinality(rows) = 1
      THEN [threw |-> FALSE, row |-> <<CHOOSE r \in rows : TRUE>>]
      ELSE [threw |-> TRUE, row |-> <<>>]

\* ON DELETE CASCADE / FOREIGN KEY (issue_id) REFERENCES issues(id)
IssueExists(rows, id) == \E r \in rows : r.id = id

\* step 6 of ingest, after the hash
TrackUserNoCount(issueRows, userRows, issueId, userHash, t) ==
    IF \E r \in userRows : r.issue_id = issueId /\ r.user_hash = userHash
      THEN [threw |-> FALSE, issues |-> issueRows,
            users |-> {IF r.issue_id = issueId /\ r.user_hash = userHash
                         THEN [r EXCEPT !.last_seen = t] ELSE r : r \in userRows}]
    ELSE IF ~IssueExists(issueRows, issueId)
      THEN [threw |-> TRUE, issues |-> issueRows, users |-> userRows]
    ELSE [threw |-> FALSE, issues |-> issueRows,
          users |-> userRows \cup {[issue_id |-> issueId, user_hash |-> userHash,
                                    first_seen |-> t, last_seen |-> t]}]

TrackUser(issueRows, userRows, issueId, userHash, t) ==
    LET existingUser ==
            One({r \in userRows : r.issue_id = issueId /\ r.user_hash = userHash})
    IN  IF existingUser.threw
          THEN [threw |-> TRUE, issues |-> issueRows, users |-> userRows]
        ELSE IF Len(existingUser.row) > 0
          THEN [threw |-> FALSE, issues |-> issueRows,
                users |-> {IF r.issue_id = issueId /\ r.user_hash = userHash
                             THEN [r EXCEPT !.last_seen = t] ELSE r : r \in userRows}]
        ELSE IF ~IssueExists(issueRows, issueId)
          THEN [threw |-> TRUE, issues |-> issueRows, users |-> userRows]
        ELSE [threw |-> FALSE,
              issues |-> {IF r.id = issueId THEN [r EXCEPT !.user_count = @ + 1] ELSE r
                            : r \in issueRows},
              users |-> userRows \cup {[issue_id |-> issueId, user_hash |-> userHash,
                                        first_seen |-> t, last_seen |-> t]}]

\* the rows a DELETE FROM issues WHERE id = ? leaves in a table that references issues
CascadeKeepAll(rows, issueId) == rows

CascadeDelete(rows, issueId) == {r \in rows : r.issue_id # issueId}

\* the UPDATE storing nothing
SetStatusNone(rows, id, status) == rows

\* UPDATE issues SET status = ? WHERE id = ?
SetStatus(rows, id, status) ==
    {IF r.id = id THEN [r EXCEPT !.status = status] ELSE r : r \in rows}

\* handleGetIssue: the row and the status of the response
handleGetIssue(issueId) ==
    LET rows == {r \in issues : r.id = issueId}
    IN  IF rows = {} THEN [status |-> 404, error |-> "issue_not_found", issue |-> <<>>]
        ELSE [status |-> 200, error |-> "", issue |-> <<CHOOSE r \in rows : TRUE>>]

\* the value of a column of an issues row
Column(row, name) ==
    CASE name = "last_seen" -> row.last_seen
      [] name = "first_seen" -> row.first_seen
      [] name = "count" -> row.count

\* rowToIssue: the object of the response, with its own property names
rowToIssue(row) ==
    [id |-> row.id, fingerprint |-> row.fingerprint, title |-> row.title,
     level |-> row.level, firstSeen |-> row.first_seen, lastSeen |-> row.last_seen,
     count |-> row.count, userCount |-> row.user_count, status |-> row.status]

\* issue[name]: <<>> is undefined, the value of a property the object lacks
Property(issue, name) ==
    IF name \in DOMAIN issue THEN <<issue[name]>> ELSE <<>>

RECURSIVE OrderByDesc(_, _)
\* ORDER BY name DESC: every order the engine may give to rows of equal value
OrderByDesc(rows, name) ==
    IF rows = {} THEN {<<>>}
    ELSE LET tops == {r \in rows : \A q \in rows : Column(q, name) <= Column(r, name)}
         IN  UNION {{<<t>> \o rest : rest \in OrderByDesc(rows \ {t}, name)} : t \in tops}

\* LIMIT n: a negative n is no limit
SqlLimit(seq, n) == IF n < 0 THEN seq ELSE Slice(seq, n)

\* Array.slice(0, n): a negative n counts from the end
SliceTo(seq, n) ==
    IF n >= 0 THEN Slice(seq, n)
    ELSE IF Len(seq) + n > 0 THEN SubSeq(seq, 1, Len(seq) + n) ELSE <<>>

DefaultLimit == 25
MaxLimit == 100

\* limit: 0 when the request gives none
PageLimit(limit) ==
    LET given == IF limit # 0 THEN limit ELSE DefaultLimit
    IN  IF given < MaxLimit THEN given ELSE MaxLimit

\* sort: "" when the request gives none
SortField(sort) == IF sort # "" THEN sort ELSE "last_seen"

\* the rows of WHERE 1=1 [AND status = ?] [AND <sort field> < ?]; status is ""
\* and cursor is <<>> when the request gives none
SelectIssues(rows, status, sort, cursor) ==
    {r \in rows : /\ status # "" => r.status = status
                  /\ Len(cursor) > 0 => Column(r, SortField(sort)) < cursor[1]}

\* handleGetIssues on a table: the responses it may give
GetIssuesOn(table, status, sort, cursor, limit) ==
    LET pageLimit == PageLimit(limit)
        sortField == SortField(sort)
    IN  { LET rows == SqlLimit(ordered, pageLimit + 1)
              hasMore == Len(rows) > pageLimit
              page == SliceTo(rows, pageLimit)
              list == [k \in 1..Len(page) |-> rowToIssue(page[k])]
          IN  [issues |-> list,
               nextCursor |-> IF hasMore /\ Len(list) > 0
                                THEN Property(list[Len(list)], sortField) ELSE <<>>,
               hasMore |-> hasMore]
          : ordered \in OrderByDesc(SelectIssues(table, status, sort, cursor), sortField) }

handleGetIssues(status, sort, cursor, limit) ==
    GetIssuesOn(issues, status, sort, cursor, limit)

----------------------------------------------------------------------------
(* Ingestion coordinator: the key of the request and the project registry *)

S_comma == <<44>>
S_equals == <<61>>
S_SentryPrefix == <<83, 101, 110, 116, 114, 121, 32>>
S_sentry_key == <<115, 101, 110, 116, 114, 121, 95, 107, 101, 121>>

RECURSIVE Split(_, _)
\* String.split(c), c one character
Split(str, c) ==
    IF \A i \in 1..Len(str) : <<str[i]>> # c THEN <<str>>
    ELSE LET at == CHOOSE i \in 1..Len(str) :
                       <<str[i]>> = c /\ \A j \in 1..(i - 1) : <<str[j]>> # c
         IN  <<SubSeq(str, 1, at - 1)>> \o Split(SubSeq(str, at + 1, Len(str)), c)

RECURSIVE Trim(_)
Trim(str) ==
    IF Len(str) > 0 /\ <<str[1]>> = S_space THEN Trim(Tail(str))
    ELSE IF Len(str) > 0 /\ <<str[Len(str)]>> = S_space
      THEN Trim(SubSeq(str, 1, Len(str) - 1))
    ELSE str

StartsWith(str, prefix) ==
    Len(str) >= Len(prefix) /\ SubSeq(str, 1, Len(prefix)) = prefix

RECURSIVE KeyOfParts(_)
\* the loop over the parts of the header: the value of the first sentry_key
KeyOfParts(parts) ==
    IF Len(parts) = 0 THEN None
    ELSE LET pair == Split(Trim(parts[1]), S_equals)
         IN  IF pair[1] = S_sentry_key
               THEN (IF Len(pair) >= 2 THEN pair[2] ELSE None)
               ELSE KeyOfParts(Tail(parts))

\* null and undefined are the empty sequence
extractKeyFromAuthHeader(header) ==
    IF ~StartsWith(header, S_SentryPrefix) THEN None
    ELSE KeyOfParts(Split(SubSeq(header, Len(S_SentryPrefix) + 1, Len(header)), S_comma))

\* the Authorization header is <<>> or <<[scheme, base64ok, decoded]>>: decoded
\* is the text atob gives for the part after "Basic ", base64ok whether atob
\* accepts that part
BasicKey(authorization) ==
    IF Len(authorization) = 0 THEN None
    ELSE IF authorization[1].scheme # "Basic" \/ ~authorization[1].base64ok THEN None
    ELSE Split(authorization[1].decoded, S_colon)[1]

\* the same sources, the X-Sentry-Auth header before the query parameter
PublicKeyHeaderFirst(req) ==
    LET fromHeader == IF Truthy(req.sentryAuth) THEN extractKeyFromAuthHeader(req.sentryAuth)
                      ELSE None
        fromQuery == IF Truthy(fromHeader) THEN fromHeader ELSE req.queryKey
    IN  IF Truthy(fromQuery) THEN fromQuery ELSE BasicKey(req.authorization)

\* the key handleIngestion validates: query parameter, X-Sentry-Auth, Authorization
PublicKeyOf(req) ==
    LET fromQuery == req.queryKey
        fromHeader == IF Truthy(fromQuery) THEN fromQuery
                      ELSE IF Truthy(req.sentryAuth)
                        THEN extractKeyFromAuthHeader(req.sentryAuth)
                      ELSE None
    IN  IF Truthy(fromHeader) THEN fromHeader ELSE BasicKey(req.authorization)

Key1 == <<107, 49>>
Key2 == <<107, 50>>
KeyX == <<107, 120>>

\* rows of the registry's tables projects and project_members
Projects ==
    {[id |-> "p1", slug |-> "s1", public_key |-> Key1, members |-> {"alice"}],
     [id |-> "p2", slug |-> "s2", public_key |-> Key2, members |-> {"bob"}]}

\* the tables as the model starts with them: the two projects, owned by their
\* members (columns name, platform and created_at are read by no query here)
InitialProjects ==
    {[id |-> r.id, slug |-> r.slug, public_key |-> r.public_key,
      created_by |-> CHOOSE u \in r.members : TRUE] : r \in Projects}
InitialMembers ==
    UNION {{[project_id |-> r.id, user_id |-> u, role |-> "owner"] : u \in r.members} : r \in Projects}

\* AuthState.handleGetProjectByKey
handleGetProjectByKey(publicKey) ==
    LET rows == {r \in projects : r.public_key = publicKey}
    IN  IF ~Truthy(publicKey) THEN [status |-> 400, error |-> "missing_key", project |-> <<>>]
        ELSE IF rows = {} THEN [status |-> 404, error |-> "project_not_found", project |-> <<>>]
        ELSE [status |-> 200, error |-> "", project |-> <<CHOOSE r \in rows : TRUE>>]

\* the same checks without the comparison of the project ids
AuthenticateAnyProject(req) ==
    LET publicKey == PublicKeyOf(req)
        found == handleGetProjectByKey(publicKey)
    IN  IF ~Truthy(publicKey)
          THEN [status |-> 401, error |-> "missing_auth", project |-> <<>>]
        ELSE IF found.status # 200
          THEN [status |-> 401, error |-> "invalid_auth", project |-> <<>>]
        ELSE [status |-> 200, error |-> "", project |-> found.project]

\* the checks of handleIngestion before it reads the body: the rejection, or
\* the project of the key
Authenticate(req) ==
    LET publicKey == PublicKeyOf(req)
        found == handleGetProjectByKey(publicKey)
    IN  IF ~Truthy(publicKey)
          THEN [status |-> 401, error |-> "missing_auth", project |-> <<>>]
        ELSE IF found.status # 200
          THEN [status |-> 401, error |-> "invalid_auth", project |-> <<>>]
        ELSE IF req.projectId # "" /\ req.projectId # found.project[1].id
          THEN [status |-> 400, error |-> "project_mismatch", project |-> <<>>]
        ELSE [status |-> 200, error |-> "", project |-> found.project]

----------------------------------------------------------------------------
(* Envelope parser.  The body is the sequence of the lines split('\n') gives; *)
(* a line is what JSON.parse makes of it: "blank" (empty or white space),     *)
(* "text" (no JSON, and no prefix of it is JSON), "null" (the JSON null) or   *)
(* "object", with its type and length members (<<>>: undefined), its number   *)
(* of characters and the event its members are.                               *)

Line(kind, type, length, size, event) ==
    [kind |-> kind, type |-> type, length |-> length, size |-> size, event |-> event]

ParsesAsJson(line) == line.kind \in {"object", "null"}

\* the payload of an item: JSON.parse of the line, cut at the header's length
\* when it has one, and the text itself when that throws
PayloadOf(line, length) ==
    LET cut == Len(length) > 0 /\ length[1] < line.size
    IN  IF ~cut /\ line.kind = "object" THEN [kind |-> "object", event |-> <<line.event>>]
        ELSE IF ~cut /\ line.kind = "null" THEN [kind |-> "null", event |-> <<>>]
        ELSE [kind |-> "string", event |-> <<>>]

RECURSIVE ParseItems(_, _)
\* the while loop of parseEnvelope from line i on (lines are numbered from 1)
ParseItems(lines, i) ==
    IF i > Len(lines) THEN [threw |-> FALSE, items |-> <<>>]
    ELSE IF lines[i].kind = "blank" THEN ParseItems(lines, i + 1)
    ELSE IF ~ParsesAsJson(lines[i]) THEN ParseItems(lines, i + 1)
    ELSE IF i + 1 > Len(lines) THEN [threw |-> FALSE, items |-> <<>>]
    ELSE IF lines[i].kind = "null" THEN [threw |-> TRUE, items |-> <<>>]
    ELSE LET item == [type |-> lines[i].type,
                      payload |-> PayloadOf(lines[i + 1], lines[i].length)]
             rest == ParseItems(lines, i + 2)
         IN  [threw |-> rest.threw, items |-> <<item>> \o rest.items]

parseEnvelope(lines) ==
    IF ~ParsesAsJson(lines[1]) THEN [threw |-> TRUE, items |-> <<>>]
    ELSE ParseItems(lines, 2)

RECURSIVE ExtractFrom(_, _, _, _)
\* the loop of extractEvents from item k on.  A payload that is null has no
\* property to read, and one that is a string takes no property: both throw
ExtractFrom(items, k, n, t) ==
    IF k > Len(items) THEN [threw |-> FALSE, events |-> <<>>]
    ELSE IF items[k].type \notin {"event", "transaction"} THEN ExtractFrom(items, k + 1, n, t)
    ELSE IF items[k].payload.kind # "object" THEN [threw |-> TRUE, events |-> <<>>]
    ELSE LET rest == ExtractFrom(items, k + 1, n, t)
         IN  [threw |-> rest.threw,
              events |-> <<EnsureEvent(items[k].payload.event[1], n, k, t)>> \o rest.events]

extractEvents(items, n, t) == ExtractFrom(items, 1, n, t)

\* bodyText.includes('\n{'): a line after the first begins with a brace
IncludesNewlineBrace(lines) == \E i \in 2..Len(lines) : lines[i].kind = "object"

\* the try block of handleIngestion: a raw JSON event, or an envelope.  The raw
\* bodies of the inputs are one JSON object or no JSON
ParseBody(req, n, t) ==
    IF req.json /\ ~IncludesNewlineBrace(req.lines)
      THEN IF req.lines[1].kind = "object" /\ \A i \in 2..Len(req.lines) : req.lines[i].kind = "blank"
             THEN [threw |-> FALSE, events |-> <<req.lines[1].event>>]
             ELSE [threw |-> TRUE, events |-> <<>>]
      ELSE LET envelope == parseEnvelope(req.lines)
               extracted == extractEvents(envelope.items, n, t)
           IN  IF envelope.threw THEN [threw |-> TRUE, events |-> <<>>] ELSE extracted

----------------------------------------------------------------------------
(* The calls.  status 0: the handler threw, and fetch rejects (it returns   *)
(* the handler's promise without awaiting it, so its catch does not apply). *)

Threw == 0

Outcome(op, status, error, issueId, eventId, user) ==
    [op |-> op, status |-> status, error |-> error, issueId |-> issueId,
     eventId |-> eventId, user |-> user]

\* an ingestion response: its status, its error and its id (<<>>: null)
Response(status, error, id) == [status |-> status, error |-> error, id |-> id]

\* a management request (user, slug, operation), its response (status, error)
\* and the project whose shard the operation was sent to ("": none)
Managed(user, slug, op, status, error, shard) ==
    [user |-> user, slug |-> slug, op |-> op, status |-> status, error |-> error,
     shard |-> shard]

\* a call on the registry's users and sessions: its status, its error, the
\* token it was about or returns, and the user id it returns
AuthOutcome(op, status, error, token, userId) ==
    [op |-> op, status |-> status, error |-> error, token |-> token, userId |-> userId]

\* a call on the registry's projects: its status, its error, the project it
\* was about or created, and the user it was made for
ProjectOutcome(op, status, error, projectId, slug, userId) ==
    [op |-> op, status |-> status, error |-> error, projectId |-> projectId,
     slug |-> slug, userId |-> userId]

\* the state of a Project Shard object the shard variables do not hold
Parked(issueRows, eventRows, statRows, userRows, suspended, removed, handed, outcome) ==
    [issues |-> issueRows, events |-> eventRows, stats |-> statRows, users |-> userRows,
     pending |-> suspended, deleted |-> removed, received |-> handed, last |-> outcome]

\* the request being served is not answered yet
NoResponse == Response(0, "", <<>>)

Init ==
    /\ issues = {}
    /\ events = {}
    /\ stats = {}
    /\ users = {}
    /\ now = 1
    /\ pending = {}
    /\ nIngest = 0
    /\ nAdmin = 0
    /\ deleted = {}
    /\ received = {}
    /\ last = Outcome("none", 0, "", 0, None, <<>>)
    /\ route = <<>>
    /\ calls = <<>>
    /\ resp = NoResponse
    /\ nRequest = 0
    /\ request = <<>>
    /\ manage = Managed("", "", "none", 0, "", "")
    /\ accounts = {}
    /\ sessions = {}
    /\ registering = {}
    /\ authLast = AuthOutcome("none", 0, "", None, None)
    /\ loggedOut = {}
    /\ nAuth = 0
    /\ projects = InitialProjects
    /\ members = InitialMembers
    /\ projLast = ProjectOutcome("none", 0, "", "", "", "")
    /\ gone = {}
    /\ nProject = 0
    /\ statusSet = {}
    /\ sharding = [active |-> "p1",
                   other |-> Parked({}, {}, {}, {}, {}, {}, {}, Outcome("none", 0, "", 0, None, <<>>)),
                   call |-> [project |-> "", op |-> "none"],
                   suspended |-> {},
                   origin |-> {}]
    /\ arrivals = <<>>

Tick ==
    /\ now < MaxClock
    /\ now' = now + 1
    /\ UNCHANGED <<issues, events, stats, users, pending, nIngest, nAdmin, deleted, received, last>>

\* handleIngest up to `await this.hashUserIdentifier(event.user)`
handleIngest(event) ==
    /\ nIngest < MaxIngest
    /\ Len(event.user) > 0 => Cardinality(pending) < MaxPending
    /\ LET call == nIngest + 1
           evId == OrElse(event.event_id, RandomEventId(call))
           evTime == IF event.timestamp # 0 THEN event.timestamp ELSE now
           evPrint == FingerprintOf[event]
           up == UpsertIssue(issues, event, evPrint, RandomIssueId(call), now)
           done(st) == Outcome("ingest", st, "", up.issueId, evId, event.user)
       IN  /\ nIngest' = call
           /\ received' = received \cup {[event |-> event, eventId |-> evId]}
           /\ issues' = up.issues
           /\ IF EventIdStored(events, evId)
                THEN /\ last' = done(Threw)
                     /\ UNCHANGED <<events, stats, pending>>
              ELSE IF InvalidDate(evTime)
                THEN /\ events' = events \cup {EventRow(evId, up.issueId, evTime, now, event)}
                     /\ last' = done(Threw)
                     /\ UNCHANGED <<stats, pending>>
              ELSE /\ events' = events \cup {EventRow(evId, up.issueId, evTime, now, event)}
                   /\ stats' = UpsertStat(stats, up.issueId, getHourBucket(evTime))
                   /\ IF Len(event.user) > 0
                        THEN /\ pending' = pending \cup
                                  {[user |-> event.user, eventId |-> evId,
                                    issueId |-> up.issueId, now |-> now]}
                             /\ UNCHANGED last
                        ELSE /\ last' = done(200)
                             /\ UNCHANGED pending
    /\ UNCHANGED <<users, now, nAdmin, deleted>>

\* handleIngest from the hash on
handleIngestResume(p) ==
    /\ p \in pending
    /\ pending' = pending \ {p}
    /\ LET uh == hashUserIdentifier(p.user)
           done(st) == Outcome("ingest", st, "", p.issueId, p.eventId, p.user)
       IN  IF uh = None
             THEN /\ last' = done(200)
                  /\ UNCHANGED <<issues, users>>
             ELSE LET tr == TrackUser(issues, users, p.issueId, uh, p.now)
                  IN  /\ issues' = tr.issues
                      /\ users' = tr.users
                      /\ last' = done(IF tr.threw THEN Threw ELSE 200)
    /\ UNCHANGED <<events, stats, now, nIngest, nAdmin, deleted, received>>

\* every call taken to carry an update
HasUpdatesAlways(status) == TRUE

\* updates.length > 0: the status of the body is truthy
HasUpdates(status) == status # ""

\* the statements of handleUpdateIssue
updateIssue(issueId, status) ==
    /\ LET done(st, err) == Outcome("update_issue", st, err, issueId, None, <<>>)
       IN  IF issueId = 0
             THEN /\ last' = done(400, "missing_issue_id")
                  /\ UNCHANGED issues
           ELSE IF ~HasUpdates(status)
             THEN /\ last' = done(400, "no_updates")
                  /\ UNCHANGED issues
           ELSE /\ issues' = SetStatus(issues, issueId, status)
                /\ last' = done(IF One({r \in issues' : r.id = issueId}).threw
                                  THEN Threw ELSE 200, "")
    /\ UNCHANGED <<events, stats, users, now, pending, nIngest, deleted, received>>

\* a call of update_issue, counted
handleUpdateIssue(issueId, status) ==
    /\ nAdmin < MaxAdmin
    /\ nAdmin' = nAdmin + 1
    /\ updateIssue(issueId, status)

\* the statements of handleDeleteIssue
deleteIssue(issueId) ==
    /\ LET done(st, err) == Outcome("delete_issue", st, err, issueId, None, <<>>)
       IN  IF issueId = 0
             THEN /\ last' = done(400, "missing_issue_id")
                  /\ UNCHANGED <<issues, events, stats, users, deleted>>
           ELSE /\ issues' = {r \in issues : r.id # issueId}
                /\ events' = CascadeDelete(events, issueId)
                /\ stats' = CascadeDelete(stats, issueId)
                /\ users' = CascadeDelete(users, issueId)
                /\ deleted' = deleted \cup {r.id : r \in {q \in issues : q.id = issueId}}
                /\ last' = done(200, "")
    /\ UNCHANGED <<now, pending, nIngest, received>>

\* a call of delete_issue, counted
handleDeleteIssue(issueId) ==
    /\ nAdmin < MaxAdmin
    /\ nAdmin' = nAdmin + 1
    /\ deleteIssue(issueId)

\* the calls made on the shard directly
Next ==
    \/ Tick /\ UNCHANGED <<routeVars, manage, registryVars, statusSet, sharding, arrivals>>
    \/ \E event \in EventInputs : handleIngest(event) /\ UNCHANGED <<routeVars, manage, registryVars, statusSet, sharding, arrivals>>
    \/ \E p \in pending : handleIngestResume(p) /\ UNCHANGED <<routeVars, manage, registryVars, statusSet, sharding, arrivals>>
    \/ \E issueId \in 0..MaxIngest, status \in StatusInputs :
          handleUpdateIssue(issueId, status) /\ UNCHANGED <<routeVars, manage, registryVars, statusSet, sharding, arrivals>>
    \/ \E issueId \in 0..MaxIngest : handleDeleteIssue(issueId) /\ UNCHANGED <<routeVars, manage, registryVars, statusSet, sharding, arrivals>>

Spec == Init /\ [][Next]_vars

----------------------------------------------------------------------------
(* Ingestion coordinator: handleIngestion.  The tables are the shard of the *)
(* project the request is accepted for; the coordinator serves one request  *)
(* at a time here.                                                          *)

Request(projectId, queryKey, sentryAuth, authorization, gzipBad, json, lines) ==
    [rpc |-> FALSE, projectId |-> projectId, queryKey |-> queryKey, sentryAuth |-> sentryAuth,
     authorization |-> authorization, gzipBad |-> gzipBad, json |-> json, lines |-> lines]

\* a call of SentinelRpc.captureEnvelope: the key and the project of the DSN
\* (None when the DSN has none) and the items of the envelope object
RpcCall(publicKey, projectId, items) ==
    [rpc |-> TRUE, publicKey |-> publicKey, projectId |-> projectId, items |-> items]

\* the index the loop goes on with: the next event, whatever the outcome
NextIndexStopOnFailure(k, ok, n) == IF ok THEN k + 1 ELSE n + 1

NextIndex(k, ok, n) == k + 1

\* handleIngestion up to the loop over the events
handleIngestion(req) ==
    /\ Len(route) = 0
    /\ nRequest < MaxRequest
    /\ nRequest' = nRequest + 1
    /\ request' = <<req>>
    /\ calls' = <<>>
    /\ LET auth == Authenticate(req)
           parsed == ParseBody(req, nRequest + 1, now)
       IN  IF auth.status # 200
             THEN resp' = Response(auth.status, auth.error, <<>>) /\ UNCHANGED route
           ELSE IF req.gzipBad
             THEN resp' = Response(400, "decompression_failed", <<>>) /\ UNCHANGED route
           ELSE IF parsed.threw
             THEN resp' = Response(400, "parse_failed", <<>>) /\ UNCHANGED route
           ELSE IF Len(parsed.events) = 0
             THEN resp' = Response(200, "", <<>>) /\ UNCHANGED route
           ELSE /\ route' = <<[rpc |-> FALSE, project |-> auth.project[1].id,
                               events |-> parsed.events, k |-> 1, results |-> <<>>]>>
                /\ resp' = NoResponse
    /\ UNCHANGED shardVars

\* SentinelRpc.captureEnvelope up to the loop over the events; extractEvents is
\* called outside any try, so the call rejects when it throws
captureEnvelope(rpc) ==
    /\ Len(route) = 0
    /\ nRequest < MaxRequest
    /\ nRequest' = nRequest + 1
    /\ request' = <<rpc>>
    /\ calls' = <<>>
    /\ LET found == handleGetProjectByKey(rpc.publicKey)
           extracted == extractEvents(rpc.items, nRequest + 1, now)
       IN  IF ~Truthy(rpc.publicKey) \/ rpc.projectId = ""
             THEN resp' = Response(400, "", <<>>) /\ UNCHANGED route
           ELSE IF found.status # 200
             THEN resp' = Response(401, "", <<>>) /\ UNCHANGED route
           ELSE IF rpc.projectId # found.project[1].id
             THEN resp' = Response(400, "", <<>>) /\ UNCHANGED route
           ELSE IF extracted.threw
             THEN resp' = Response(Threw, "exception", <<>>) /\ UNCHANGED route
           ELSE IF Len(extracted.events) = 0
             THEN resp' = Response(200, "", <<>>) /\ UNCHANGED route
           ELSE /\ route' = <<[rpc |-> TRUE, project |-> found.project[1].id,
                               events |-> extracted.events, k |-> 1, results |-> <<>>]>>
                /\ resp' = NoResponse
    /\ UNCHANGED shardVars

\* the end of `await projectState.fetch(.../ingest)` for event k
Settle(r, outcome) ==
    LET ok == outcome.status = 200
    IN  /\ calls' = [calls EXCEPT ![r.k] =
                        [@ EXCEPT !.state = IF ok THEN "ok" ELSE "failed",
                                  !.eventId = outcome.eventId]]
        /\ route' = <<[r EXCEPT !.k = NextIndex(r.k, ok, Len(r.events)),
                                !.results = IF ok THEN Append(@, outcome.eventId) ELSE @]>>

\* one turn of the loop: the ingest of event k is sent to the shard
IngestEvent ==
    /\ Len(route) = 1
    /\ pending = {}
    /\ route[1].k <= Len(route[1].events)
    /\ Len(calls) < route[1].k
    /\ LET r == route[1]
           event == r.events[r.k]
           issued == Append(calls, [project |-> r.project, event |-> event,
                                    state |-> "issued", eventId |-> None])
       IN  /\ handleIngest(event)
           /\ IF pending' # {}
                THEN calls' = issued /\ UNCHANGED route
                ELSE LET ok == last'.status = 200
                     IN  /\ calls' = Append(calls, [project |-> r.project, event |-> event,
                                                    state |-> IF ok THEN "ok" ELSE "failed",
                                                    eventId |-> last'.eventId])
                         /\ route' = <<[r EXCEPT !.k = NextIndex(r.k, ok, Len(r.events)),
                                                 !.results = IF ok THEN Append(@, last'.eventId)
                                                             ELSE @]>>
    /\ UNCHANGED <<resp, nRequest, request>>

\* the shard ends a call it had suspended
IngestAwaited ==
    /\ Len(route) = 1
    /\ \E p \in pending : handleIngestResume(p) /\ Settle(route[1], last')
    /\ UNCHANGED <<resp, nRequest, request>>

\* the id of the response, the id of the first event whatever the results
ResponseIdOfFirstEvent(results, evs) ==
    IF Truthy(evs[1].event_id) THEN <<evs[1].event_id>> ELSE <<>>

\* firstResult?.eventId || events[0]?.event_id || null
ResponseId(results, evs) ==
    IF Len(results) > 0 THEN <<results[1]>>
    ELSE IF Truthy(evs[1].event_id) THEN <<evs[1].event_id>>
    ELSE <<>>

\* captureEnvelope: { status: 200, eventId: firstEventId }
RpcEventId(results) == IF Len(results) > 0 THEN <<results[1]>> ELSE <<>>

\* after the loop: the response
IngestRespond ==
    /\ Len(route) = 1
    /\ route[1].k > Len(route[1].events)
    /\ resp' = Response(200, "",
                  IF route[1].rpc THEN RpcEventId(route[1].results)
                  ELSE ResponseId(route[1].results, route[1].events))
    /\ route' = <<>>
    /\ UNCHANGED <<calls, nRequest, request>>
    /\ UNCHANGED shardVars

\* the lines of the bodies
EnvelopeHeader == Line("object", "", <<>>, 2, Event(None, 0, <<>>, <<>>, <<>>, <<>>))
ItemHeader(type, length) == Line("object", type, length, 2, Event(None, 0, <<>>, <<>>, <<>>, <<>>))
Payload(event) == Line("object", "", <<>>, 5, event)
TextLine == Line("text", "", <<>>, 5, Event(None, 0, <<>>, <<>>, <<>>, <<>>))
BlankLine == Line("blank", "", <<>>, 0, Event(None, 0, <<>>, <<>>, <<>>, <<>>))
NullLine == Line("null", "", <<>>, 4, Event(None, 0, <<>>, <<>>, <<>>, <<>>))

EventItem(event) == <<ItemHeader("event", <<>>), Payload(event)>>

Ev1 == Event(Id_e1, 1, <<>>, Exc(ValueA), <<>>, <<>>)
Ev2 == Event(Id_e2, 1, <<>>, Exc(ValueA), <<>>, <<>>)
Ev2User == Event(Id_e2, 1, <<>>, Exc(ValueA), <<>>, User1)
Ev1BadDate == Event(Id_e1, 0 - 1, <<>>, Exc(ValueA), <<>>, <<>>)
EvBare == Event(None, 0, <<>>, <<>>, <<>>, <<>>)

\* envelopes by the items their sender wrote, each the lines it takes: a
\* well-formed event item next to an item with a malformed header, with a
\* non-JSON payload, without payload, of an unknown type, and blank lines
ItemsSentInputs ==
    { <<<<TextLine, Payload(Ev1)>>, EventItem(Ev2)>>,
      <<<<TextLine, TextLine>>, EventItem(Ev2)>>,
      <<<<ItemHeader("attachment", <<>>), TextLine>>, EventItem(Ev2)>>,
      <<<<ItemHeader("event", <<>>), TextLine>>, EventItem(Ev2)>>,
      <<EventItem(Ev2), <<ItemHeader("event", <<>>)>>>>,
      <<<<ItemHeader("event", <<>>)>>, EventItem(Ev2)>>,
      <<<<ItemHeader("foo", <<>>), Payload(Ev1)>>, EventItem(Ev2)>>,
      <<EventItem(Ev1), <<BlankLine>>, EventItem(Ev2), <<BlankLine>>, <<BlankLine>>>> }

RECURSIVE Flatten(_)
Flatten(chunks) == IF Len(chunks) = 0 THEN <<>> ELSE chunks[1] \o Flatten(Tail(chunks))

\* the body of an envelope: its header line and the lines of its items
Body(sent) == <<EnvelopeHeader>> \o Flatten(sent)

EnvelopeInputs ==
    { <<EnvelopeHeader>> \o EventItem(Ev1),
      <<EnvelopeHeader>> \o EventItem(Ev1) \o EventItem(Ev2),
      <<EnvelopeHeader>> \o EventItem(Ev1) \o EventItem(Ev1),          \* the second is a duplicate
      <<EnvelopeHeader>> \o EventItem(Ev1BadDate) \o EventItem(Ev2),   \* the first fails
      <<EnvelopeHeader>> \o EventItem(Ev1BadDate),                     \* all fail
      <<EnvelopeHeader>> \o EventItem(Ev2User),
      <<EnvelopeHeader>> \o EventItem(EvBare),
      <<EnvelopeHeader, ItemHeader("transaction", <<5>>), Payload(Ev1)>>,
      <<EnvelopeHeader, ItemHeader("event", <<3>>), Payload(Ev1)>>,    \* length cuts the payload
      <<EnvelopeHeader>>,                                              \* no item
      <<EnvelopeHeader, ItemHeader("attachment", <<>>), TextLine>>,    \* no event item
      <<TextLine>> \o EventItem(Ev1),                                  \* header is no JSON
      <<NullLine>> \o EventItem(Ev1),                                  \* header is null
      <<EnvelopeHeader, NullLine, Payload(Ev1)>> \o EventItem(Ev2),    \* item header is null
      <<EnvelopeHeader, ItemHeader("event", <<>>), BlankLine>> \o EventItem(Ev2) }
    \cup {Body(sent) : sent \in ItemsSentInputs}

SentryAuth1 == <<83, 101, 110, 116, 114, 121, 32, 115, 101, 110, 116, 114, 121, 95, 118, 101, 114, 115, 105, 111, 110, 61, 55, 44, 32, 115, 101, 110, 116, 114, 121, 95, 107, 101, 121, 61, 107, 49>>
SentryAuth2 == <<83, 101, 110, 116, 114, 121, 32, 115, 101, 110, 116, 114, 121, 95, 107, 101, 121, 61, 107, 50>>
SentryAuthNoKey == <<83, 101, 110, 116, 114, 121, 32, 115, 101, 110, 116, 114, 121, 95, 118, 101, 114, 115, 105, 111, 110, 61, 55>>
SentryAuthEmptyKey == <<83, 101, 110, 116, 114, 121, 32, 115, 101, 110, 116, 114, 121, 95, 107, 101, 121, 61, 44, 115, 101, 110, 116, 114, 121, 95, 118, 101, 114, 115, 105, 111, 110, 61, 55>>
SentryAuthNoPrefix == <<115, 101, 110, 116, 114, 121, 95, 107, 101, 121, 61, 107, 49>>

Basic(key) == <<[scheme |-> "Basic", base64ok |-> TRUE, decoded |-> key \o S_colon]>>
BasicNotBase64 == <<[scheme |-> "Basic", base64ok |-> FALSE, decoded |-> None]>>
Bearer == <<[scheme |-> "Bearer", base64ok |-> TRUE, decoded |-> Key1 \o S_colon]>>

EnvOne == <<EnvelopeHeader>> \o EventItem(Ev1)

\* [query key, X-Sentry-Auth, Authorization] of the requests
AuthInputs ==
    { <<None, None, <<>>>>,
      <<Key1, None, <<>>>>,
      <<KeyX, None, <<>>>>,
      <<Key2, None, <<>>>>,
      <<None, SentryAuth1, <<>>>>,
      <<None, SentryAuth2, <<>>>>,
      <<None, None, Basic(Key1)>>,
      <<None, None, Basic(KeyX)>>,
      <<Key1, SentryAuth2, Basic(KeyX)>>,
      <<KeyX, SentryAuth1, Basic(Key1)>>,
      <<None, SentryAuth1, Basic(Key2)>>,
      <<None, SentryAuth2, Basic(Key1)>>,
      <<None, SentryAuthNoKey, Basic(Key1)>>,
      <<None, SentryAuthEmptyKey, Basic(Key1)>>,
      <<None, SentryAuthNoPrefix, <<>>>>,
      <<None, SentryAuthNoPrefix, Basic(Key2)>>,
      <<None, None, BasicNotBase64>>,
      <<None, None, Bearer>> }

RequestInputs ==
    {Request("p1", a[1], a[2], a[3], FALSE, FALSE, EnvOne) : a \in AuthInputs}
    \cup {Request("p1", Key1, None, <<>>, FALSE, FALSE, lines) : lines \in EnvelopeInputs}
    \cup {Request("p1", Key1, None, <<>>, TRUE, FALSE, EnvOne),
          Request("p1", Key1, None, <<>>, FALSE, TRUE, <<Payload(EvBare)>>),
          Request("p1", Key1, None, <<>>, FALSE, TRUE, <<Payload(Ev2), BlankLine>>),
          Request("p1", Key1, None, <<>>, FALSE, TRUE, <<TextLine>>),
          Request("p1", Key1, None, <<>>, FALSE, TRUE, EnvOne)}

ObjectPayload(event) == [kind |-> "object", event |-> <<event>>]
StringPayload == [kind |-> "string", event |-> <<>>]

RpcInputs ==
    { RpcCall(Key1, "p1", <<[type |-> "event", payload |-> ObjectPayload(Ev1)]>>),
      RpcCall(Key1, "p1", <<[type |-> "event", payload |-> ObjectPayload(Ev1BadDate)],
                            [type |-> "session", payload |-> StringPayload],
                            [type |-> "event", payload |-> ObjectPayload(Ev2)]>>),
      RpcCall(Key1, "p1", <<[type |-> "event", payload |-> ObjectPayload(Ev1BadDate)]>>),
      RpcCall(Key1, "p1", <<[type |-> "event", payload |-> StringPayload]>>),
      RpcCall(Key1, "p1", <<>>),
      RpcCall(Key1, "p2", <<[type |-> "event", payload |-> ObjectPayload(Ev1)]>>),
      RpcCall(KeyX, "p1", <<[type |-> "event", payload |-> ObjectPayload(Ev1)]>>),
      RpcCall(None, "p1", <<[type |-> "event", payload |-> ObjectPayload(Ev1)]>>),
      RpcCall(Key1, "", <<[type |-> "event", payload |-> ObjectPayload(Ev1)]>>) }

RouteNext ==
    \/ Tick /\ UNCHANGED <<routeVars, manage, registryVars, statusSet, sharding, arrivals>>
    \/ \E req \in RequestInputs : handleIngestion(req) /\ UNCHANGED <<manage, registryVars, statusSet, sharding, arrivals>>
    \/ \E rpc \in RpcInputs : captureEnvelope(rpc) /\ UNCHANGED <<manage, registryVars, statusSet, sharding, arrivals>>
    \/ IngestEvent /\ UNCHANGED <<manage, registryVars, statusSet, sharding, arrivals>>
    \/ IngestAwaited /\ UNCHANGED <<manage, registryVars, statusSet, sharding, arrivals>>
    \/ IngestRespond /\ UNCHANGED <<manage, registryVars, statusSet, sharding, arrivals>>

RouteSpec == Init /\ [][RouteNext]_vars

----------------------------------------------------------------------------
(* Management routes: the access check and the operation sent to the shard. *)
(* The tables are the shard of project p1.                                  *)

\* the same lookup without the JOIN on project_members
handleGetProjectAnyUser(slug, userId) ==
    LET rows == {r \in projects : r.slug = slug}
    IN  IF slug = "" THEN [status |-> 400, error |-> "missing_slug", project |-> <<>>]
        ELSE IF rows = {} THEN [status |-> 404, error |-> "project_not_found", project |-> <<>>]
        ELSE [status |-> 200, error |-> "", project |-> <<CHOOSE r \in rows : TRUE>>]

\* AuthState.handleGetProject; userId "" is an absent one
handleGetProject(slug, userId) ==
    LET rows == IF userId # ""
                  THEN {r \in projects : /\ r.slug = slug
                                           /\ \E pm \in members : /\ pm.project_id = r.id
                                                                 /\ pm.user_id = userId}
                  ELSE {r \in projects : r.slug = slug}
    IN  IF slug = "" THEN [status |-> 400, error |-> "missing_slug", project |-> <<>>]
        ELSE IF rows = {} THEN [status |-> 404, error |-> "project_not_found", project |-> <<>>]
        ELSE [status |-> 200, error |-> "", project |-> <<CHOOSE r \in rows : TRUE>>]

\* auth is <<>> or <<the id of the authenticated user>>
getProjectWithAccess(auth, slug) ==
    IF Len(auth) = 0 THEN [status |-> 401, error |-> "unauthorized", project |-> <<>>]
    ELSE IF handleGetProject(slug, auth[1]).status # 200
      THEN [status |-> 404, error |-> "project_not_found", project |-> <<>>]
    ELSE handleGetProject(slug, auth[1])

\* handleGetEvent: { event: JSON.parse(row.data), issueId: row.issue_id }; the
\* data column holds JSON.stringify of the event, itself parsed from JSON, so
\* parsing it gives the event back; events.id is the primary key
handleGetEvent(eventId) ==
    LET rows == {r \in events : r.id = eventId}
    IN  IF rows = {}
          THEN [status |-> 404, error |-> "event_not_found", event |-> <<>>, issueId |-> 0]
        ELSE [status |-> 200, error |-> "", event |-> <<(CHOOSE r \in rows : TRUE).data>>,
              issueId |-> (CHOOSE r \in rows : TRUE).issue_id]

ManagementOps == {"issues", "issue", "update", "delete", "events", "event", "latest", "stats"}

\* a rejected shard call leaves the route without response: the framework answers 500
RouteStatus(status) == IF status = Threw THEN 500 ELSE status

\* a route of issueRoutes or eventRoutes: the access check, then the operation
handleManagement(auth, slug, op, issueId, status, eventId) ==
    LET access == getProjectWithAccess(auth, slug)
        user == IF Len(auth) = 0 THEN "" ELSE auth[1]
        answer(st, err) == Managed(user, slug, op, st, err, access.project[1].id)
    IN  IF access.status # 200
          THEN /\ manage' = Managed(user, slug, op, access.status, access.error, "")
               /\ UNCHANGED <<shardVars, routeVars>>
        ELSE IF op = "update"
          THEN /\ handleUpdateIssue(issueId, status)
               /\ manage' = answer(RouteStatus(last'.status), last'.error)
               /\ UNCHANGED routeVars
        ELSE IF op = "delete"
          THEN /\ handleDeleteIssue(issueId)
               /\ manage' = answer(IF last'.status = Threw THEN 500 ELSE 200, last'.error)
               /\ UNCHANGED routeVars
        ELSE /\ manage' =
                   IF op = "issue"
                     THEN answer(handleGetIssue(issueId).status, handleGetIssue(issueId).error)
                   ELSE IF op = "event"
                     THEN answer(handleGetEvent(eventId).status, handleGetEvent(eventId).error)
                   ELSE answer(200, "")
             /\ UNCHANGED <<shardVars, routeVars>>

AuthInputsOfManagement == {<<>>, <<"alice">>, <<"bob">>}
SlugInputs == {"s1", "s0"}
IssueIdInputs == {RandomIssueId(1), RandomIssueId(2)}

AccessNext ==
    \/ \E event \in {Ev1, Ev2} : handleIngest(event) /\ UNCHANGED <<routeVars, manage, registryVars, statusSet, sharding, arrivals>>
    \/ \E auth \in AuthInputsOfManagement, slug \in SlugInputs, op \in ManagementOps,
          issueId \in IssueIdInputs, status \in {"", "resolved"}, eventId \in {Id_e1, Id_e3} :
          handleManagement(auth, slug, op, issueId, status, eventId) /\ UNCHANGED <<registryVars, statusSet, sharding, arrivals>>

AccessSpec == Init /\ [][AccessNext]_vars

----------------------------------------------------------------------------
(* Registry (AuthState): users and sessions *)

SessionLife == 1

\* String.toLowerCase on the letters A to Z
ToLowerCase(str) == [i \in 1..Len(str) |-> IF str[i] >= 65 /\ str[i] <= 90 THEN str[i] + 32 ELSE str[i]]

\* hashPassword: the hex digits of SHA-256, one value per password
Sha256Hex(password) == <<"sha256">> \o password

\* generateKey and crypto.randomUUID of the registry: call n draws a value
\* drawn by no other
RandomKey(n) == <<107>> \o DecimalString(n)
RandomUserId(n) == <<105>> \o DecimalString(n)

\* SELECT id FROM users WHERE email = ?
SelectUserByEmail(rows, email) == {r \in rows : r.email = email}

\* createSession: the row of INSERT INTO sessions
SessionRow(sessionId, userId, t) ==
    [id |-> sessionId, user_id |-> userId, expires_at |-> t + SessionLife, created_at |-> t]

\* DELETE FROM sessions WHERE expires_at < ?
cleanExpiredSessions(rows, t) == {r \in rows : ~(r.expires_at < t)}

\* the DELETE of logout, removing nothing
DeleteSessionNone(rows, token) == rows

\* DELETE FROM sessions WHERE id = ?
DeleteSession(rows, token) == {r \in rows : r.id # token}

\* sessions JOIN users WHERE s.id = ? AND s.expires_at > ?
SelectSession(rows, userRows, token, t) ==
    {r \in rows : r.id = token /\ r.expires_at > t /\ \E u \in userRows : u.id = r.user_id}

\* the answer of handleValidateSession on these tables
ValidateStatus(rows, userRows, token, t) ==
    IF ~Truthy(token) THEN 400
    ELSE IF SelectSession(cleanExpiredSessions(rows, t), userRows, token, t) = {} THEN 401
    ELSE 200

\* handleRegister up to `await this.hashPassword(password)`
handleRegister(email, password, name) ==
    /\ nAuth < MaxAuth
    /\ nAuth' = nAuth + 1
    /\ IF ~Truthy(email) \/ ~Truthy(password) \/ ~Truthy(name)
         THEN /\ authLast' = AuthOutcome("register", 400, "missing_fields", None, None)
              /\ UNCHANGED registering
       ELSE IF SelectUserByEmail(accounts, email) # {}
         THEN /\ authLast' = AuthOutcome("register", 409, "user_exists", None, None)
              /\ UNCHANGED registering
       ELSE /\ registering' = registering \cup
                   {[call |-> nAuth + 1, email |-> email, password |-> password, name |-> name,
                     role |-> IF accounts = {} THEN "admin" ELSE "member"]}
            /\ UNCHANGED authLast
    /\ UNCHANGED <<accounts, sessions, loggedOut>>

\* handleRegister from the hash on: users.email is UNIQUE, the INSERT throws
\* when the lower-cased email is stored
handleRegisterResume(p) ==
    /\ p \in registering
    /\ registering' = registering \ {p}
    /\ IF SelectUserByEmail(accounts, ToLowerCase(p.email)) # {}
         THEN /\ authLast' = AuthOutcome("register", Threw, "", None, None)
              /\ UNCHANGED <<accounts, sessions>>
         ELSE /\ accounts' = accounts \cup
                   {[id |-> RandomUserId(p.call), email |-> ToLowerCase(p.email),
                     password_hash |-> Sha256Hex(p.password), name |-> p.name,
                     role |-> p.role]}
              /\ sessions' = sessions \cup {SessionRow(RandomKey(p.call), RandomUserId(p.call), now)}
              /\ authLast' = AuthOutcome("register", 200, "", RandomKey(p.call), RandomUserId(p.call))
    /\ UNCHANGED <<loggedOut, nAuth>>

\* handleLogin; nothing the handler reads after `await this.verifyPassword`
\* can have changed during it (no call removes or alters a user)
handleLogin(email, password) ==
    /\ nAuth < MaxAuth
    /\ nAuth' = nAuth + 1
    /\ LET userRows == SelectUserByEmail(accounts, ToLowerCase(email))
           userRow == CHOOSE r \in userRows : TRUE
       IN  IF ~Truthy(email) \/ ~Truthy(password)
             THEN /\ authLast' = AuthOutcome("login", 400, "missing_fields", None, None)
                  /\ UNCHANGED sessions
           ELSE IF userRows = {} \/ Sha256Hex(password) # userRow.password_hash
             THEN /\ authLast' = AuthOutcome("login", 401, "invalid_credentials", None, None)
                  /\ UNCHANGED sessions
           ELSE /\ sessions' = sessions \cup {SessionRow(RandomKey(nAuth + 1), userRow.id, now)}
                /\ authLast' = AuthOutcome("login", 200, "", RandomKey(nAuth + 1), userRow.id)
    /\ UNCHANGED <<accounts, registering, loggedOut>>

handleLogout(token) ==
    /\ sessions' = IF Truthy(token) THEN DeleteSession(sessions, token) ELSE sessions
    /\ loggedOut' = loggedOut \cup {token}
    /\ authLast' = AuthOutcome("logout", 200, "", token, None)
    /\ UNCHANGED <<accounts, registering, nAuth>>

handleValidateSession(token) ==
    /\ sessions' = IF Truthy(token) THEN cleanExpiredSessions(sessions, now) ELSE sessions
    /\ LET rows == SelectSession(sessions', accounts, token, now)
       IN  authLast' =
              IF ~Truthy(token) THEN AuthOutcome("validate", 400, "missing_token", token, None)
              ELSE IF rows = {} THEN AuthOutcome("validate", 401, "invalid_session", token, None)
              ELSE AuthOutcome("validate", 200, "", token, (CHOOSE r \in rows : TRUE).user_id)
    /\ UNCHANGED <<accounts, registering, loggedOut, nAuth>>

S_a == <<97>>
S_A == <<65>>
S_b == <<98>>
EmailInputs == {None, S_a, S_A, S_b}
PasswordInputs == {S_a, S_b}
\* the tokens a caller can present: none, and the keys drawn so far (a key of
\* 64 random characters is known to nobody before createSession draws it)
TokenInputs ==
    {None} \cup {RandomKey(n) : n \in {k \in 1..nAuth : \A p \in registering : p.call # k}}

AuthNext ==
    \/ Tick /\ UNCHANGED <<routeVars, manage, registryVars, statusSet, sharding, arrivals>>
    \/ \E email \in EmailInputs, password \in PasswordInputs :
          handleRegister(email, password, S_a) /\ UNCHANGED <<shardVars, routeVars, manage, projectVars, statusSet, sharding, arrivals>>
    \/ \E p \in registering : handleRegisterResume(p) /\ UNCHANGED <<shardVars, routeVars, manage, projectVars, statusSet, sharding, arrivals>>
    \/ \E email \in EmailInputs, password \in PasswordInputs :
          handleLogin(email, password) /\ UNCHANGED <<shardVars, routeVars, manage, projectVars, statusSet, sharding, arrivals>>
    \/ \E token \in TokenInputs : handleLogout(token) /\ UNCHANGED <<shardVars, routeVars, manage, projectVars, statusSet, sharding, arrivals>>
    \/ \E token \in TokenInputs :
          handleValidateSession(token) /\ UNCHANGED <<shardVars, routeVars, manage, projectVars, statusSet, sharding, arrivals>>

AuthSpec == Init /\ [][AuthNext]_vars

----------------------------------------------------------------------------
(* Registry (AuthState): projects and members *)

MaxSlug == 50

Digits == <<"0", "1", "2", "3", "4", "5", "6", "7", "8", "9">>

\* `${counter}`
RECURSIVE DecimalText(_)
DecimalText(n) ==
    IF n < 10 THEN Digits[n + 1]
    ELSE DecimalText(n \div 10) \o Digits[(n % 10) + 1]

\* the string of these character codes (the characters of the names used here)
RECURSIVE Text(_)
Text(codes) ==
    IF Len(codes) = 0 THEN ""
    ELSE (CASE codes[1] = 45 -> "-"
            [] codes[1] = 49 -> "1"
            [] codes[1] = 50 -> "2"
            [] codes[1] = 115 -> "s"
            [] OTHER -> "?") \o Text(Tail(codes))

IsSlugChar(c) == (c >= 97 /\ c <= 122) \/ (c >= 48 /\ c <= 57)

\* .replace(/[^a-z0-9]+/g, '-')
RECURSIVE DashRuns(_)
DashRuns(str) ==
    IF Len(str) = 0 THEN <<>>
    ELSE IF IsSlugChar(str[1]) THEN <<str[1]>> \o DashRuns(Tail(str))
    ELSE IF Len(str) > 1 /\ ~IsSlugChar(str[2]) THEN DashRuns(Tail(str))
    ELSE <<45>> \o DashRuns(Tail(str))

\* .replace(/^-|-$/g, '')
TrimDash(str) ==
    LET front == IF Len(str) > 0 /\ str[1] = 45 THEN Tail(str) ELSE str
    IN  IF Len(front) > 0 /\ front[Len(front)] = 45 THEN SubSeq(front, 1, Len(front) - 1)
        ELSE front

slugify(text) == Text(Slice(TrimDash(DashRuns(ToLowerCase(text))), MaxSlug))

\* SELECT id FROM projects WHERE slug = ?
SlugTaken(rows, slug) == \E r \in rows : r.slug = slug

\* the slug of the name itself, taken or not
UniqueSlugNoLoop(rows, baseSlug) == baseSlug

\* the loop of handleCreateProject: the base slug, or the base slug with the
\* first counter from 1 whose slug no project has
UniqueSlug(rows, baseSlug) ==
    IF ~SlugTaken(rows, baseSlug) THEN baseSlug
    ELSE LET free(c) == ~SlugTaken(rows, baseSlug \o "-" \o DecimalText(c))
             counter == CHOOSE c \in 1..(Cardinality(rows) + 1) :
                           free(c) /\ \A d \in 1..(c - 1) : ~free(d)
         IN  baseSlug \o "-" \o DecimalText(counter)

\* generateKey(32) and crypto.randomUUID of create-project: call n draws
\* values drawn by no other
RandomPublicKey(n) == <<112>> \o DecimalString(n)
RandomProjectId(n) == "n" \o DecimalText(n)

\* handleCreateProject; slug and public_key are UNIQUE, the INSERT throws on a
\* value a row has; userId "" is an absent one
handleCreateProject(name, userId) ==
    /\ nProject < MaxProject
    /\ nProject' = nProject + 1
    /\ LET slug == UniqueSlug(projects, slugify(name))
           publicKey == RandomPublicKey(nProject + 1)
           projectId == RandomProjectId(nProject + 1)
       IN  IF ~Truthy(name) \/ userId = ""
             THEN /\ projLast' = ProjectOutcome("create", 400, "missing_fields", "", "", userId)
                  /\ UNCHANGED <<projects, members>>
           ELSE IF \E r \in projects : r.slug = slug \/ r.public_key = publicKey
             THEN /\ projLast' = ProjectOutcome("create", Threw, "", "", "", userId)
                  /\ UNCHANGED <<projects, members>>
           ELSE /\ projects' = projects \cup
                      {[id |-> projectId, slug |-> slug, public_key |-> publicKey,
                        created_by |-> userId]}
                /\ members' = members \cup
                      {[project_id |-> projectId, user_id |-> userId, role |-> "owner"]}
                /\ projLast' = ProjectOutcome("create", 200, "", projectId, slug, userId)
    /\ UNCHANGED gone

\* the check of handleDeleteProject passing for every user
MayDeleteAnyone(projectId, userId) == TRUE

\* SELECT role FROM project_members ...: a row, and its role is 'owner'
MayDelete(projectId, userId) ==
    \E pm \in members : pm.project_id = projectId /\ pm.user_id = userId /\ pm.role = "owner"

\* handleDeleteProject; project_members.project_id is ON DELETE CASCADE
handleDeleteProject(projectId, userId) ==
    /\ IF projectId = "" \/ userId = ""
         THEN /\ projLast' = ProjectOutcome("delete", 400, "missing_fields", projectId, "", userId)
              /\ UNCHANGED <<projects, members, gone>>
       ELSE IF ~MayDelete(projectId, userId)
         THEN /\ projLast' = ProjectOutcome("delete", 403, "forbidden", projectId, "", userId)
              /\ UNCHANGED <<projects, members, gone>>
       ELSE /\ projects' = {r \in projects : r.id # projectId}
            /\ members' = {pm \in members : pm.project_id # projectId}
            /\ gone' = gone \cup {projectId}
            /\ projLast' = ProjectOutcome("delete", 200, "", projectId, "", userId)
    /\ UNCHANGED nProject

\* projectRoutes.delete('/:slug'): get-project for the user, then
\* delete-project with the id found; no call goes to a shard
deleteProject(auth, slug) ==
    LET access == getProjectWithAccess(auth, slug)
    IN  IF access.status # 200
          THEN /\ projLast' = ProjectOutcome("route", access.status, access.error, "", slug,
                                             IF Len(auth) = 0 THEN "" ELSE auth[1])
               /\ UNCHANGED <<projects, members, gone, nProject>>
          ELSE handleDeleteProject(access.project[1].id, auth[1])

NameInputs == {None, <<83, 49>>, <<115, 49, 33>>, <<115, 49, 45, 49>>}
UserIdInputs == {"", "alice", "bob"}
ProjectIdInputs == {"", "p1", "p2", RandomProjectId(1)}

\* ingestion requests for project p1: the shard tables are those of p1
RequestInputsOfProject ==
    {Request("p1", Key1, None, <<>>, FALSE, FALSE, Body(sent)) :
        sent \in {<<EventItem(Ev1)>>, <<EventItem(Ev1), EventItem(Ev2User)>>}}

ProjectNext ==
    \/ \E name \in NameInputs, userId \in UserIdInputs :
          handleCreateProject(name, userId) /\ UNCHANGED <<shardVars, routeVars, manage, authVars, statusSet, sharding, arrivals>>
    \/ \E projectId \in ProjectIdInputs, userId \in UserIdInputs :
          handleDeleteProject(projectId, userId)
             /\ UNCHANGED <<shardVars, routeVars, manage, authVars, statusSet, sharding, arrivals>>
    \/ \E auth \in AuthInputsOfManagement, slug \in SlugInputs :
          deleteProject(auth, slug) /\ UNCHANGED <<shardVars, routeVars, manage, authVars, statusSet, sharding, arrivals>>
    \/ \E req \in RequestInputsOfProject : handleIngestion(req) /\ UNCHANGED <<manage, registryVars, statusSet, sharding, arrivals>>
    \/ IngestEvent /\ UNCHANGED <<manage, registryVars, statusSet, sharding, arrivals>>
    \/ IngestAwaited /\ UNCHANGED <<manage, registryVars, statusSet, sharding, arrivals>>
    \/ IngestRespond /\ UNCHANGED <<manage, registryVars, statusSet, sharding, arrivals>>

ProjectSpec == Init /\ [][ProjectNext]_vars

----------------------------------------------------------------------------
(* Project shard: management calls in any number *)

\* the stored status after an update_issue answered 200
RecordStatus(set, issueId, status) ==
    {pair \in set : pair[1] # issueId} \cup {<<issueId, status>>}

StatusInputsOfUpdate == StatusInputs \cup {"ignored"}

StatusNext ==
    \/ \E event \in {Ev1, Ev2User} :
          handleIngest(event) /\ UNCHANGED <<routeVars, manage, registryVars, statusSet, sharding, arrivals>>
    \/ \E p \in pending : handleIngestResume(p) /\ UNCHANGED <<routeVars, manage, registryVars, statusSet, sharding, arrivals>>
    \/ \E issueId \in 0..MaxIngest, status \in StatusInputsOfUpdate :
          /\ updateIssue(issueId, status)
          /\ statusSet' = IF last'.status = 200 THEN RecordStatus(statusSet, issueId, status)
                          ELSE statusSet
          /\ UNCHANGED <<nAdmin, routeVars, manage, registryVars, sharding, arrivals>>
    \/ \E issueId \in 0..MaxIngest :
          deleteIssue(issueId) /\ UNCHANGED <<nAdmin, routeVars, manage, registryVars, statusSet, sharding, arrivals>>

StatusSpec == Init /\ [][StatusNext]_vars

----------------------------------------------------------------------------
(* Two Project Shards.  The shard variables hold the object sharding.active, *)
(* sharding.other is the state of the other one; the counters of the ids    *)
(* drawn and the clock are common to both.                                   *)

ShardNames == {"p1", "p2"}

\* every project sent to one object
ShardOfFirst(projectId) == "p1"

\* c.env.PROJECT_STATE.idFromName(project.id): one object for each project id
ShardOf(projectId) == projectId

\* the tables of the object of this name
TablesOf(name) ==
    IF sharding.active = name THEN <<issues, events, stats, users>>
    ELSE <<sharding.other.issues, sharding.other.events, sharding.other.stats,
           sharding.other.users>>

\* PROJECT_STATE.get(id): the shard variables turn to the object of this
\* name; both objects stay as they are
Obtain(name) ==
    /\ name # sharding.active
    /\ issues' = sharding.other.issues
    /\ events' = sharding.other.events
    /\ stats' = sharding.other.stats
    /\ users' = sharding.other.users
    /\ pending' = sharding.other.pending
    /\ deleted' = sharding.other.deleted
    /\ received' = sharding.other.received
    /\ last' = sharding.other.last
    /\ sharding' = [sharding EXCEPT
                       !.active = name,
                       !.other = Parked(issues, events, stats, users, pending, deleted,
                                        received, last)]
    /\ UNCHANGED <<now, nIngest, nAdmin>>

Called(projectId, op) == [project |-> projectId, op |-> op]

\* the ids of the rows a step added to a table
NewIds(rows, rowsAfter) == {r.id : r \in rowsAfter} \ {r.id : r \in rows}

\* an ingest of the route for this project: projectState.fetch('/ingest')
IngestTo(projectId, event) ==
    /\ sharding.active = ShardOf(projectId)
    /\ nIngest < MaxShardIngest
    /\ handleIngest(event)
    /\ sharding' = [sharding EXCEPT
          !.call = Called(projectId, "ingest"),
          !.suspended = @ \cup {[shard |-> sharding.active, eventId |-> p.eventId,
                                 project |-> projectId] : p \in pending' \ pending},
          !.origin = @ \cup {<<projectId, "issue", id>> : id \in NewIds(issues, issues')}
                       \cup {<<projectId, "event", id>> : id \in NewIds(events, events')}]

\* the object ends an ingest it had suspended
ResumeIn(p) ==
    /\ handleIngestResume(p)
    /\ \E s \in sharding.suspended :
          /\ s.shard = sharding.active
          /\ s.eventId = p.eventId
          /\ sharding' = [sharding EXCEPT !.call = Called(s.project, "ingest"),
                                          !.suspended = @ \ {s}]

\* update_issue of the route for this project
UpdateTo(projectId, issueId, status) ==
    /\ sharding.active = ShardOf(projectId)
    /\ updateIssue(issueId, status)
    /\ sharding' = [sharding EXCEPT !.call = Called(projectId, "update")]
    /\ UNCHANGED nAdmin

\* delete_issue of the route for this project
DeleteTo(projectId, issueId) ==
    /\ sharding.active = ShardOf(projectId)
    /\ deleteIssue(issueId)
    /\ sharding' = [sharding EXCEPT !.call = Called(projectId, "delete")]
    /\ UNCHANGED nAdmin

IsolationNext ==
    \/ \E name \in ShardNames :
          Obtain(name) /\ UNCHANGED <<routeVars, manage, registryVars, statusSet, arrivals>>
    \/ \E r \in projects, event \in {Ev1, Ev2User} :
          IngestTo(r.id, event) /\ UNCHANGED <<routeVars, manage, registryVars, statusSet, arrivals>>
    \/ \E p \in pending : ResumeIn(p) /\ UNCHANGED <<routeVars, manage, registryVars, statusSet, arrivals>>
    \/ \E r \in projects, issueId \in 1..MaxShardIngest :
          UpdateTo(r.id, issueId, "resolved")
             /\ UNCHANGED <<routeVars, manage, registryVars, statusSet, arrivals>>
    \/ \E r \in projects, issueId \in 1..MaxShardIngest :
          DeleteTo(r.id, issueId) /\ UNCHANGED <<routeVars, manage, registryVars, statusSet, arrivals>>

IsolationSpec == Init /\ [][IsolationNext]_vars

----------------------------------------------------------------------------
(* Properties of the project shard *)

RECURSIVE SumCount(_)
SumCount(rows) ==
    IF rows = {} THEN 0
    ELSE LET r == CHOOSE q \in rows : TRUE
         IN  r.count + SumCount(rows \ {r})

EventsOf(id) == {e \in events : e.issue_id = id}
StatsOf(id) == {b \in stats : b.issue_id = id}
UsersOf(id) == {u \in users : u.issue_id = id}

HasIdentifier(user) == hashUserIdentifier(user) # None

\* a step in which an ingest call begins and ends
IngestBeganAndEnded ==
    nIngest' = nIngest + 1 /\ pending' = pending /\ last'.op = "ingest"

\* C1: every issue's count is the number of stored events of the issue
CountConsistency ==
    \A i \in issues : i.count = Cardinality(EventsOf(i.id))

\* C2: the counts of an issue's hourly buckets add up to the issue's count
BucketConsistency ==
    \A i \in issues : SumCount(StatsOf(i.id)) = i.count

DuplicateIdIdempotent ==
    [][(IngestBeganAndEnded /\ EventIdStored(events, last'.eventId))
         => (last'.status = 200 /\ events' = events /\ issues' = issues
             /\ stats' = stats)]_vars

\* C5: every issue's status is one of unresolved, resolved, ignored
StatusClosure ==
    \A i \in issues : i.status \in {"unresolved", "resolved", "ignored"}

\* every effect of the ingest call that ended last is stored
LastStoredAll ==
    /\ \E i \in issues : i.id = last.issueId
    /\ \E e \in events : e.id = last.eventId /\ e.issue_id = last.issueId
    /\ StatsOf(last.issueId) # {}
    /\ HasIdentifier(last.user) =>
           \E u \in users : /\ u.issue_id = last.issueId
                            /\ u.user_hash = hashUserIdentifier(last.user)

\* C6: when an ingest call ends, all of its effects are stored or none is: a
\* call that ends in the step it began has stored all or left the tables as
\* they were, and a call that ends after the hash has stored all or has no
\* event row (unless its issue was deleted meanwhile)
IngestAllOrNothing ==
    [][/\ IngestBeganAndEnded =>
            \/ last'.status = 200 /\ LastStoredAll'
            \/ <<issues, events, stats, users>>' = <<issues, events, stats, users>>
       /\ \A p \in pending \ pending' :
            \/ last'.status = 200 /\ LastStoredAll'
            \/ ~EventIdStored(events', p.eventId)
            \/ p.issueId \in deleted]_vars

\* C7: delete_issue(id) removes the issue and exactly the events, hourly
\* buckets and issue_users rows of id, leaves every other row as it was, and
\* get_issue(id) then reports not-found
CascadeExact ==
    [][\A id \in 1..MaxIngest :
          (/\ nAdmin' = nAdmin + 1
           /\ last'.op = "delete_issue"
           /\ last'.status = 200
           /\ last'.issueId = id)
          => /\ issues' = {i \in issues : i.id # id}
             /\ events' = {e \in events : e.issue_id # id}
             /\ stats' = {b \in stats : b.issue_id # id}
             /\ users' = {u \in users : u.issue_id # id}
             /\ (handleGetIssue(id).status = 404)']_vars

\* a delete has just removed an issue, and another issue and its events remain
CascadeRemovedOne ==
    /\ last.op = "delete_issue"
    /\ last.status = 200
    /\ last.issueId \in deleted
    /\ issues # {}
    /\ events # {}

\* C8: no two issues have the same fingerprint, and an ingest whose
\* fingerprint matches a stored issue creates no issue
FingerprintUnique ==
    [][/\ \A a, b \in issues' : a.fingerprint = b.fingerprint => a = b
       /\ \A event \in EventInputs :
            (/\ handleIngest(event)
             /\ SelectIssueByFingerprint(issues, FingerprintOf[event]) # {})
            => {i.id : i \in issues'} = {i.id : i \in issues}]_vars

\* two issues are stored and an ingest has matched a stored issue
MatchedStoredIssue ==
    /\ Cardinality(issues) >= 2
    /\ \E i \in issues : i.count >= 2

NoExplicitFingerprint(event) == Len(SelectSeq(event.fingerprint, NotDefault)) = 0

\* every call so far was an ingest of an exception event under an event id of
\* its own, the exceptions agree on type, normalized message and top frames,
\* every call has ended and no issue was deleted
DedupScenario ==
    /\ nIngest >= 1
    /\ pending = {}
    /\ deleted = {}
    /\ Cardinality({r.eventId : r \in received}) = nIngest
    /\ \A r \in received : Len(r.event.exception) > 0
    /\ \A r, q \in received :
           ExceptionParts(r.event.exception[1]) = ExceptionParts(q.event.exception[1])

OneIssueOfAll ==
    /\ Cardinality(issues) = 1
    /\ \A i \in issues : i.count = nIngest /\ Cardinality(EventsOf(i.id)) = nIngest

\* C9, as stated: N events with distinct ids and the same exception type,
\* normalized message and top frames make one issue of count N with N events
Deduplication == DedupScenario => OneIssueOfAll

\* C9, amended: the same, for events that carry no explicit fingerprint token
\* other than the default one
DeduplicationNoExplicit ==
    (DedupScenario /\ \A r \in received : NoExplicitFingerprint(r.event))
        => OneIssueOfAll

\* three such events, two of them with different raw messages, were ingested
DedupThree ==
    /\ DedupScenario
    /\ \A r \in received : NoExplicitFingerprint(r.event)
    /\ nIngest >= 3
    /\ \E r, q \in received : r.event.exception[1].value # q.event.exception[1].value

\* the distinct user identifiers among the stored events of an issue
IdentifiersOf(id) ==
    {UserIdentifier(e.data.user[1]) : e \in {x \in EventsOf(id) : HasIdentifier(x.data.user)}}

\* C10: once every ingest has ended, an issue's user_count is the number of
\* distinct user identifiers among its events, and an ingest of an event with
\* a user identifier succeeds
UniqueUserCounting ==
    /\ pending = {} => \A i \in issues : i.user_count = Cardinality(IdentifiersOf(i.id))
    /\ (last.op = "ingest" /\ HasIdentifier(last.user) /\ last.issueId \notin deleted)
           => last.status = 200

\* C11: an ingest that matches a stored issue adds one to its count, sets its
\* last_seen to the time of the call, and leaves its status, id, fingerprint,
\* title, level and first_seen as they were
IngestKeepsStatus ==
    [][\A event \in EventInputs :
         handleIngest(event) =>
           \A i \in SelectIssueByFingerprint(issues, FingerprintOf[event]) :
              issues' = (issues \ {i}) \cup
                          {[i EXCEPT !.count = i.count + 1, !.last_seen = now]}]_vars

\* an ingest has just matched an issue that was resolved before
IngestOnResolved ==
    /\ last.op = "ingest"
    /\ last.status = 200
    /\ Len(last.user) = 0
    /\ \E i \in issues : i.id = last.issueId /\ i.status = "resolved" /\ i.count >= 2

StatusFilterInputs == {"", "unresolved"}
SortInputs == {"", "count"}
CursorInputs == {<<>>, <<2>>}
LimitInputs == {0 - 2, 0, 1, 2, 100, 101}
PositiveLimits == {limit \in LimitInputs : limit > 0}

\* the sort-field value of an issue of a response
IssueSortValue(issue, sortField) ==
    CASE sortField = "last_seen" -> issue.lastSeen
      [] sortField = "first_seen" -> issue.firstSeen
      [] sortField = "count" -> issue.count

RECURSIVE Walk(_, _, _, _, _)
\* the pages from the one of `cursor` on, following next_cursor while has_more
\* is true, for at most `fuel` further requests: the issues of the pages in
\* order, and whether the walk came to a page with has_more false
Walk(status, sort, cursor, limit, fuel) ==
    UNION { IF ~r.hasMore THEN {[items |-> r.issues, ended |-> TRUE]}
            ELSE IF fuel = 0 THEN {[items |-> r.issues, ended |-> FALSE]}
            ELSE {[items |-> r.issues \o w.items, ended |-> w.ended]
                    : w \in Walk(status, sort, r.nextCursor, limit, fuel - 1)}
            : r \in handleGetIssues(status, sort, cursor, limit) }

\* C12: following next_cursor from the first page until has_more is false
\* returns every matching issue exactly once, in strictly descending order of
\* the sort field
PaginationMonotone ==
    \A status \in StatusFilterInputs, sort \in SortInputs, limit \in PositiveLimits :
      \A w \in Walk(status, sort, <<>>, limit, Cardinality(issues)) :
        /\ w.ended
        /\ Len(w.items) = Cardinality(SelectIssues(issues, status, sort, <<>>))
        /\ {w.items[k].id : k \in 1..Len(w.items)}
             = {r.id : r \in SelectIssues(issues, status, sort, <<>>)}
        /\ \A k \in 1..(Len(w.items) - 1) :
             IssueSortValue(w.items[k], SortField(sort))
               > IssueSortValue(w.items[k + 1], SortField(sort))

\* C13: has_more is true exactly when a matching issue is left after the last
\* returned one; then next_cursor is the sort-field value of the last returned
\* issue, and without has_more there is no next_cursor
HasMoreAndCursor ==
    \A status \in StatusFilterInputs, sort \in SortInputs, cursor \in CursorInputs,
       limit \in PositiveLimits :
      \A r \in handleGetIssues(status, sort, cursor, limit) :
        /\ r.hasMore <=>
             \E q \in SelectIssues(issues, status, sort, cursor) :
                \A k \in 1..Len(r.issues) : r.issues[k].id # q.id
        /\ r.hasMore =>
             /\ Len(r.issues) > 0
             /\ r.nextCursor =
                  <<IssueSortValue(r.issues[Len(r.issues)], SortField(sort))>>
        /\ ~r.hasMore => r.nextCursor = <<>>

\* a table of n issues, the k-th seen at time k with count k
TableOfSize(n) ==
    {[id |-> k, fingerprint |-> <<0, k>>, title |-> S_UnknownError, level |-> S_error,
      first_seen |-> k, last_seen |-> k, count |-> k, user_count |-> 0,
      status |-> "unresolved"] : k \in 1..n}

TableSizes == {26, 101, 103}

\* the most issues a response may hold
PageSizeAllowed(limit) ==
    IF limit = 0 THEN DefaultLimit
    ELSE IF limit > 0 /\ limit < MaxLimit THEN limit
    ELSE MaxLimit

PageSizeBoundOn(table) ==
    \A limit \in LimitInputs :
      \A r \in GetIssuesOn(table, "", "", <<>>, limit) :
         Len(r.issues) <= PageSizeAllowed(limit)

\* the bound on tables larger than the caps
PageSizeBoundOnLarge == \A n \in TableSizes : PageSizeBoundOn(TableOfSize(n))

\* C14: get_issues returns at most min(limit, 100) issues, at most 25 when no
\* limit is given (and at most 100 whatever the limit)
PageSizeBound == PageSizeBoundOn(issues) /\ PageSizeBoundOnLarge

----------------------------------------------------------------------------
(* Properties of the ingestion coordinator *)

ProjectsOfKey(key) == {r \in Projects : r.public_key = key}

\* why the request is turned away, "" when it is not
Rejection(req) ==
    IF PublicKeyOf(req) = None THEN "missing_auth"
    ELSE IF ProjectsOfKey(PublicKeyOf(req)) = {} THEN "invalid_auth"
    ELSE IF \A r \in ProjectsOfKey(PublicKeyOf(req)) : r.id # req.projectId THEN "project_mismatch"
    ELSE ""

\* C15  Rejected ingestion writes nothing: a request without key is answered
\* 401 missing_auth, one with a key the registry does not know 401 invalid_auth,
\* one whose URL project differs from the key's project 400 project_mismatch,
\* and in each case no table of the shard changes and no ingest is issued.
RejectedWritesNothing ==
    [][\A req \in RequestInputs :
         handleIngestion(req) /\ Rejection(req) # "" =>
            /\ resp' = Response(IF Rejection(req) = "project_mismatch" THEN 400 ELSE 401,
                                Rejection(req), <<>>)
            /\ UNCHANGED <<issues, events, stats, users>>
            /\ route' = <<>>
            /\ calls' = <<>>]_vars

\* a request is turned away for its project after another one was stored
RejectedAfterStored ==
    /\ Len(request) = 1
    /\ ~request[1].rpc
    /\ resp.error = "project_mismatch"
    /\ nRequest = 2
    /\ issues # {}
    /\ events # {}

\* what each source of a request carries, None when it carries no key
KeyInQuery(req) == req.queryKey
KeyInSentryAuth(req) ==
    IF req.sentryAuth = None THEN None ELSE extractKeyFromAuthHeader(req.sentryAuth)
KeyInBasic(req) == BasicKey(req.authorization)

FirstKeyFound(req) ==
    IF KeyInQuery(req) # None THEN KeyInQuery(req)
    ELSE IF KeyInSentryAuth(req) # None THEN KeyInSentryAuth(req)
    ELSE KeyInBasic(req)

\* the answer of the checks when the key validated is key
AnswerForKey(req, key) ==
    IF key = None THEN "missing_auth"
    ELSE IF ProjectsOfKey(key) = {} THEN "invalid_auth"
    ELSE IF \A r \in ProjectsOfKey(key) : r.id # req.projectId THEN "project_mismatch"
    ELSE ""

\* C16  Authentication resolution order: the key validated is the first found
\* among the sentry_key query parameter, the sentry_key of X-Sentry-Auth and the
\* part before the colon of a Basic Authorization header: the request is
\* answered as that key requires, whatever the later sources carry, and is
\* turned away only for that key.
KeyResolutionOrder ==
    [][\A req \in RequestInputs :
         handleIngestion(req) =>
            LET answer == AnswerForKey(req, FirstKeyFound(req))
            IN  /\ answer # "" => resp'.error = answer /\ route' = <<>>
                /\ answer = "" =>
                      /\ resp'.error \notin {"missing_auth", "invalid_auth", "project_mismatch"}
                      /\ Len(route') = 1 =>
                            \E r \in ProjectsOfKey(FirstKeyFound(req)) : route'[1].project = r.id]_vars

\* a request with the key of project p1 in the query, the key of project p2 in
\* X-Sentry-Auth and an unknown key in Authorization is accepted for p1
EarlierKeyWins ==
    /\ Len(request) = 1
    /\ ~request[1].rpc
    /\ request[1].queryKey = Key1
    /\ KeyInSentryAuth(request[1]) = Key2
    /\ KeyInBasic(request[1]) = KeyX
    /\ Len(route) = 1
    /\ route[1].project = "p1"

\* the request passed the checks of the key and its body was read
Accepted(req) ==
    /\ AnswerForKey(req, FirstKeyFound(req)) = ""
    /\ ~req.gzipBad
    /\ \A t \in 1..MaxClock : ~ParseBody(req, 1, t).threw

Succeeded(log) == {i \in 1..Len(log) : log[i].state = "ok"}

\* the id the response owes to the ingests of the request
IdOwed(log) ==
    IF Succeeded(log) # {}
      THEN <<log[CHOOSE i \in Succeeded(log) : \A j \in Succeeded(log) : i <= j].eventId>>
    ELSE IF log[1].event.event_id # None THEN <<log[1].event.event_id>>
    ELSE <<>>

\* C17  Ingestion response id: an accepted request is answered 200; the id is
\* the event id of the first event whose ingest succeeded, the event id of the
\* first event when every ingest failed, and null when there was no event.
ResponseIdRule ==
    Len(request) = 1 /\ ~request[1].rpc =>
       /\ Accepted(request[1]) /\ resp # NoResponse => resp.status = 200
       /\ resp.status = 200 /\ calls # <<>> =>
             /\ \A i \in 1..Len(calls) : calls[i].state # "issued"
             /\ resp.id = IdOwed(calls)
       /\ resp.status = 200 /\ calls = <<>> => resp.id = <<>>

\* the request is answered with the id of its second event: the ingest of the
\* first one failed
SecondEventAnswered ==
    /\ Len(request) = 1
    /\ ~request[1].rpc
    /\ resp.status = 200
    /\ Len(calls) = 2
    /\ calls[1].state = "failed"
    /\ calls[2].state = "ok"
    /\ resp.id = <<calls[2].eventId>>
    /\ calls[1].event.event_id # calls[2].event.event_id

\* the ingests issued so far are those of the first events of the envelope, in
\* its order, and only the last of them can be unanswered
IssuedInOrder ==
    Len(route) = 1 =>
       /\ Len(calls) <= Len(route[1].events)
       /\ \A i \in 1..Len(calls) :
             /\ calls[i].event = route[1].events[i]
             /\ calls[i].project = route[1].project
             /\ i < Len(calls) => calls[i].state # "issued"

\* C18  Within one envelope of N events the ingests are issued to the shard in
\* the order of the envelope, each after the one before it was answered, and
\* the request is answered only when all N were issued, failed ones included.
EnvelopeOrder ==
    [][/\ IssuedInOrder'
       /\ IngestRespond =>
             /\ Len(calls) = Len(route[1].events)
             /\ \A i \in 1..Len(calls) : calls[i].state # "issued"]_vars

\* the ingest of the second event of an envelope was issued and succeeded after
\* the ingest of the first one had failed
IngestedAfterFailure ==
    /\ Len(route) = 1
    /\ Len(route[1].events) = 2
    /\ route[1].k = 3
    /\ calls[1].state = "failed"
    /\ calls[2].state = "ok"
    /\ \E e \in events : e.id = calls[2].eventId /\ e.data = calls[2].event

\* an item as sent is a well-formed event item: a JSON header of type event or
\* transaction and, on the next line, a JSON object no length cuts
WellFormedEventItem(chunk) ==
    /\ Len(chunk) = 2
    /\ chunk[1].kind = "object"
    /\ chunk[1].type \in {"event", "transaction"}
    /\ chunk[2].kind = "object"
    /\ Len(chunk[1].length) > 0 => chunk[1].length[1] >= chunk[2].size

WellFormedEvents(sent) ==
    {sent[i][2].event : i \in {j \in 1..Len(sent) : WellFormedEventItem(sent[j])}}

LenientOn(sent) ==
    handleIngestion(Request("p1", Key1, None, <<>>, FALSE, FALSE, Body(sent))) =>
       /\ resp'.error # "parse_failed"
       /\ \A event \in WellFormedEvents(sent) :
             /\ Len(route') = 1
             /\ \E k \in 1..Len(route'[1].events) : route'[1].events[k] = event

\* C19  Envelope leniency: for an envelope whose first line is JSON, parsing
\* and extraction do not fail, and keep every well-formed event or transaction
\* item, when another item has a malformed header, a non-JSON payload, no
\* payload or an unknown type, or is followed by blank lines.
EnvelopeLeniency ==
    [][\A sent \in ItemsSentInputs : LenientOn(sent)]_vars

----------------------------------------------------------------------------
(* Properties of the management routes *)

IsMember(user, slug) == \E r \in Projects : r.slug = slug /\ user \in r.members
SlugExists(slug) == \E r \in Projects : r.slug = slug

\* C20  Access check hides projects: a management request for a slug by an
\* authenticated user who is no member of that project is answered 404
\* project_not_found, as a request for a slug no project has, and nothing is
\* sent to a shard: the tables stay as they are.  (A step that is no ingest
\* is a management request, which manage then holds.)
AccessHidden ==
    [][/\ nIngest' = nIngest
       /\ manage'.user # ""
       /\ ~IsMember(manage'.user, manage'.slug)
       => /\ manage' = Managed(manage'.user, manage'.slug, manage'.op, 404, "project_not_found", "")
          /\ \A slug \in SlugInputs :
                ~SlugExists(slug) =>
                   getProjectWithAccess(<<manage'.user>>, slug).status = manage'.status
                   /\ getProjectWithAccess(<<manage'.user>>, slug).error = manage'.error
          /\ UNCHANGED shardVars]_vars

\* the user who is no member asked to delete an issue of a project that has
\* issues, and was answered as for a slug that does not exist
HiddenFromOutsider ==
    /\ manage.user = "bob"
    /\ manage.slug = "s1"
    /\ SlugExists("s1")
    /\ manage.op = "delete"
    /\ manage.status = 404
    /\ issues # {}

\* the statuses the spec allows
AllowedStatus == {"unresolved", "resolved", "ignored"}

\* get_issue(issueId) answers the issue with this status
ShowsStatus(issueId, status) ==
    /\ handleGetIssue(issueId).status = 200
    /\ handleGetIssue(issueId).issue[1].status = status

\* update_issue of a stored issue with an allowed status answers 200 and the
\* issue it returns, the stored row, has that status
UpdateReturnsStatus ==
    \A issueId \in 1..MaxIngest, status \in AllowedStatus \cap StatusInputsOfUpdate :
       (updateIssue(issueId, status) /\ IssueExists(issues, issueId)) =>
          /\ last'.status = 200
          /\ ShowsStatus(issueId, status)'

\* the statement C27 makes: after every step that is no update of the issue,
\* get_issue answers the status the last update set
StatusRoundTripAlways ==
    [][/\ UpdateReturnsStatus
       /\ \A pair \in statusSet \cap statusSet' : ShowsStatus(pair[1], pair[2])']_vars

\* C27  Status update round trip: update_issue(id, status) for a stored issue
\* and an allowed status returns the issue with that status, and every
\* get_issue(id) before the next update of the issue returns that status, also
\* when ingests matched the issue in between, until the issue is deleted: from
\* then on get_issue(id) answers 404.
StatusRoundTrip ==
    [][/\ UpdateReturnsStatus
       /\ \A pair \in statusSet \cap statusSet' :
             IF pair[1] \in deleted' THEN handleGetIssue(pair[1])'.status = 404
             ELSE ShowsStatus(pair[1], pair[2])']_vars

\* an ingest has matched an issue after update_issue set it to ignored
IngestAfterUpdate ==
    /\ last.op = "ingest"
    /\ last.status = 200
    /\ <<last.issueId, "ignored">> \in statusSet
    /\ \E i \in issues : i.id = last.issueId /\ i.count >= 2 /\ i.status = "ignored"

\* get_event(eventId) answers this payload and this issue
ShowsEvent(eventId, event, issueId) ==
    /\ handleGetEvent(eventId).status = 200
    /\ handleGetEvent(eventId).event = <<event>>
    /\ handleGetEvent(eventId).issueId = issueId

\* C28  Event lookup round trip: when an ingest ends with success, returning
\* an event id and an issue id, get_event of that id answers the payload that
\* was ingested and that issue id, and goes on answering them after every step
\* until the issue is deleted; get_event of an id no stored event has, or of an
\* event whose issue was deleted, answers 404 event_not_found.
EventRoundTrip ==
    [][/\ \A event \in EventInputs :
             (handleIngest(event) /\ last' # last /\ last'.status = 200) =>
                \A ended \in {last'} : ShowsEvent(ended.eventId, event, ended.issueId)'
       /\ \A p \in pending :
             (handleIngestResume(p) /\ last'.status = 200 /\ p.issueId \notin deleted) =>
                /\ ShowsEvent(p.eventId, handleGetEvent(p.eventId).event[1], p.issueId)'
                /\ \E r \in received :
                      r.eventId = p.eventId /\ r.event = handleGetEvent(p.eventId).event[1]
       /\ \A row \in events :
             IF row.issue_id \in deleted'
               THEN handleGetEvent(row.id)' =
                       [status |-> 404, error |-> "event_not_found", event |-> <<>>, issueId |-> 0]
               ELSE ShowsEvent(row.id, row.data, row.issue_id)'
       /\ \A r \in received' :
             (\A row \in events' : row.id # r.eventId) => handleGetEvent(r.eventId)'.status = 404]_vars

\* an ingest ended with success and its event is looked up with its issue,
\* after the issue of an event ingested before was deleted, which is not found
EventFoundOtherGone ==
    /\ last.op = "ingest"
    /\ last.status = 200
    /\ handleGetEvent(last.eventId).status = 200
    /\ handleGetEvent(last.eventId).issueId = last.issueId
    /\ deleted # {}
    /\ \E r \in received : handleGetEvent(r.eventId).status = 404

\* the event has no explicit fingerprint, no exception and no message
IsFallback(event) ==
    /\ SelectSeq(event.fingerprint, NotDefault) = <<>>
    /\ Len(event.exception) = 0
    /\ Len(event.message) = 0

\* C29  Fallback means no grouping: two stored events that carry no explicit
\* fingerprint, no exception and no message are in two different issues, also
\* when they arrived without an event_id and the shard drew their ids.
FallbackSeparates ==
    \A r1, r2 \in events :
       (r1.id # r2.id /\ IsFallback(r1.data) /\ IsFallback(r2.data)) =>
          r1.issue_id # r2.issue_id

\* what a read for a project returns was stored by an ingest for that
\* project: the issues of get_issues, and the rows get_event and
\* get_issue_events read, taken from the object the route sends the read to
ReadsOwn ==
    \A name \in ShardNames :
       /\ \A page \in GetIssuesOn(TablesOf(ShardOf(name))[1], "", "", <<>>, MaxLimit) :
             \A k \in 1..Len(page.issues) :
                <<name, "issue", page.issues[k].id>> \in sharding.origin
       /\ \A row \in TablesOf(ShardOf(name))[2] :
             /\ <<name, "event", row.id>> \in sharding.origin
             /\ <<name, "issue", row.issue_id>> \in sharding.origin

\* C30  Shard isolation: an ingest, update_issue or delete_issue addressed to
\* a project (every step in which the shard variables stay with their object) leaves the issues, events, hourly buckets and issue_users of the
\* shard of every other project as they are, and a read for a project returns
\* no issue and no event stored by an ingest for another project.
ShardIsolation ==
    [][/\ sharding'.active = sharding.active =>
             \A name \in ShardNames \ {sharding'.call.project} :
                TablesOf(name)' = TablesOf(name)
       /\ ReadsOwn']_vars

\* an issue of project p2 was deleted, the shard of p1 holds an issue and an
\* event of p1, and the shard of p2 holds nothing
OtherShardKept ==
    /\ sharding.call.project = "p2"
    /\ sharding.call.op = "delete"
    /\ \E id \in 1..MaxIngest : <<"p2", "issue", id>> \in sharding.origin
    /\ TablesOf("p2")[1] = {}
    /\ TablesOf("p1")[1] # {}
    /\ TablesOf("p1")[2] # {}

----------------------------------------------------------------------------
(* Properties of the registry *)

\* C21  Logout invalidates the token: once logout was called with a token,
\* validating that token fails with 401 in every later state; the logout
\* removes no other session, so the other sessions of the user validate as
\* they did before it.
LogoutInvalidates ==
    [][/\ \A token \in loggedOut' \ {None} :
             ValidateStatus(sessions', accounts', token, now') = 401
       /\ \A token \in TokenInputs :
             (handleLogout(token) /\ now' = now) =>
                \A other \in TokenInputs \ {token} :
                   ValidateStatus(sessions', accounts', other, now')
                      = ValidateStatus(sessions, accounts, other, now)]_vars

\* the token the first call registered its user with was logged out and a
\* validation of it is answered 401, while another session of that user is valid
LoggedOutRefused ==
    /\ authLast.op = "validate"
    /\ authLast.status = 401
    /\ authLast.token = RandomKey(1)
    /\ authLast.token \in loggedOut
    /\ \E u \in accounts : u.id = RandomUserId(1)
    /\ \E s \in sessions :
          /\ s.id # authLast.token
          /\ s.user_id = RandomUserId(1)
          /\ ValidateStatus(sessions, accounts, s.id, now) = 200

\* a user holds this email (the table stores emails lower-cased)
EmailHeld(email) == SelectUserByEmail(accounts, ToLowerCase(email)) # {}

\* C25  Duplicate email registration is rejected cleanly: a register call for
\* an email a user holds is answered 409 user_exists and creates no user and
\* no session, whether the email is held when the call arrives or is taken by
\* another registration while the call is in flight.
DuplicateRejected ==
    [][/\ \A email \in EmailInputs \ {None}, password \in PasswordInputs :
             (handleRegister(email, password, S_a) /\ EmailHeld(email)) =>
                /\ authLast'.status = 409
                /\ authLast'.error = "user_exists"
                /\ registering' = registering
       /\ \A p \in registering :
             (handleRegisterResume(p) /\ EmailHeld(p.email)) =>
                /\ authLast'.status = 409
                /\ authLast'.error = "user_exists"
                /\ accounts' = accounts
                /\ sessions' = sessions]_vars

\* the rows of the shard of project p1
ShardRows == <<issues, events, stats, users>>

\* C22  Project deletion cascades to the shard: when delete-project answers
\* success for project p1, the issues, events, hourly stats and issue_users
\* rows of the shard of p1 are destroyed.
DeletionCascadesToShard ==
    [][("p1" \in gone' /\ "p1" \notin gone) =>
          (issues' = {} /\ events' = {} /\ stats' = {} /\ users' = {})]_vars

\* C23  No late writes after project deletion: once delete-project answered
\* success for project p1, no step changes the rows of the shard of p1, also
\* no step of an ingestion request that resolved the key of p1 before.
NoLateWrites ==
    [][("p1" \in gone) => (ShardRows' = ShardRows)]_vars

\* the user who created the project
IsOwner(projectId, userId) == \E r \in projects : r.id = projectId /\ r.created_by = userId

\* C24  Only the owner deletes a project: a delete-project call for a project
\* by a user who is not its owner is answered 403 forbidden and leaves the
\* tables projects and project_members as they are; the call of the owner is
\* answered success and removes the project and its members, and the lookups
\* by its slug and by its public key are answered 404 afterwards.
OnlyOwnerDeletes ==
    [][(/\ projLast' # projLast
        /\ projLast'.op = "delete"
        /\ projLast'.projectId # ""
        /\ projLast'.userId # "") =>
          IF IsOwner(projLast'.projectId, projLast'.userId)
            THEN /\ projLast'.status = 200
                 /\ \A r \in projects :
                       r.id = projLast'.projectId =>
                          /\ r \notin projects'
                          /\ (handleGetProject(r.slug, "").status = 404)'
                          /\ (handleGetProject(r.slug, projLast.userId).status = 404)'
                          /\ (handleGetProjectByKey(r.public_key).status = 404)'
                 /\ \A pm \in members' : pm.project_id # projLast'.projectId
            ELSE /\ projLast'.status = 403
                 /\ projLast'.error = "forbidden"
                 /\ projects' = projects
                 /\ members' = members]_vars

\* bob is refused the deletion of a project alice created, which stays, after
\* bob deleted his own
StrangerRefused ==
    /\ projLast = ProjectOutcome("delete", 403, "forbidden", "p1", "", "bob")
    /\ "p2" \in gone
    /\ \E r \in projects : r.id = "p1" /\ r.created_by = "alice"

\* C26  Project key uniqueness: after every create-project and delete-project
\* call no two projects have the same slug and no two the same public_key, and
\* a create-project call whose name slugifies to the slug of a project succeeds
\* and gives the new project a slug no project had.
ProjectKeysUnique ==
    [][/\ \A r1, r2 \in projects' :
             (r1.slug = r2.slug \/ r1.public_key = r2.public_key) => r1 = r2
       /\ \A name \in NameInputs \ {None}, userId \in UserIdInputs \ {""} :
             (handleCreateProject(name, userId) /\ SlugTaken(projects, slugify(name))) =>
                /\ projLast'.status = 200
                /\ projLast'.slug # slugify(name)
                /\ ~SlugTaken(projects, projLast'.slug)
                /\ \E r \in projects' : r.id = projLast'.projectId /\ r.slug = projLast'.slug]_vars

\* a project named S1 is created when projects s1 and s1-1 exist
ThirdSlug ==
    /\ projLast.op = "create"
    /\ projLast.status = 200
    /\ projLast.slug = "s1-2"
    /\ \E r \in projects : r.slug = "s1"
    /\ \E r \in projects : r.slug = "s1-1"

----------------------------------------------------------------------------
(* update_issue without a status                                            *)

\* C31: a call of update_issue whose body has no status answers 400 with
\* the error no_updates and leaves the issues, events, statistics and users
\* of the shard as they were.
NoStatusNoUpdate ==
    [][\A issueId \in 1..MaxIngest :
          handleUpdateIssue(issueId, "") =>
              /\ last'.status = 400
              /\ last'.error = "no_updates"
              /\ UNCHANGED <<issues, events, stats, users>>]_vars

\* an update without a status was answered for an issue the shard holds
NoStatusOnStoredIssue ==
    /\ last.op = "update_issue"
    /\ last.error = "no_updates"
    /\ \E r \in issues : r.id = last.issueId

----------------------------------------------------------------------------
(* SentinelRpc.captureEnvelope next to the HTTP envelope endpoint           *)

\* the lines of the envelope object when it is sent as a body: each item is
\* its header and its payload, a payload that is no object being a text
LinesOfItems(items) ==
    Flatten([k \in 1..Len(items) |->
                <<ItemHeader(items[k].type, <<>>),
                  IF items[k].payload.kind = "object" THEN Payload(items[k].payload.event[1])
                  ELSE TextLine>>])

\* the request of the HTTP envelope endpoint for the DSN and the envelope of
\* an RPC call
HttpOf(rpc) ==
    Request(rpc.projectId, rpc.publicKey, None, <<>>, FALSE, FALSE,
            <<EnvelopeHeader>> \o LinesOfItems(rpc.items))

\* the answer of the checks of the DSN: 0 when the call passes them
DsnStatus(rpc) ==
    IF ~Truthy(rpc.publicKey) \/ rpc.projectId = "" THEN 400
    ELSE IF ProjectsOfKey(rpc.publicKey) = {} THEN 401
    ELSE IF \A r \in ProjectsOfKey(rpc.publicKey) : r.id # rpc.projectId THEN 400
    ELSE 0

\* the event id the RPC answer owes to the ingests of the call
RpcIdOwed(log) ==
    IF Succeeded(log) # {}
      THEN <<log[CHOOSE i \in Succeeded(log) : \A j \in Succeeded(log) : i <= j].eventId>>
    ELSE <<>>

\* the outcomes of captureEnvelope over the calls of a set: a call turned away
\* by the checks of its DSN is answered 400, 401 or 400 and changes no table
\* and issues no ingest; any other call hands the shard the events the HTTP
\* endpoint hands it for the same envelope, and is answered 200 with the
\* event id of the first ingest that succeeded
RpcOutcomesOn(inputs) ==
    /\ \A rpc \in inputs :
          captureEnvelope(rpc) =>
             LET http == ParseBody(HttpOf(rpc), nRequest + 1, now)
             IN  /\ DsnStatus(rpc) # 0 =>
                       /\ resp' = Response(DsnStatus(rpc), "", <<>>)
                       /\ UNCHANGED <<issues, events, stats, users>>
                       /\ route' = <<>>
                       /\ calls' = <<>>
                 /\ DsnStatus(rpc) = 0 =>
                       /\ AnswerForKey(HttpOf(rpc), FirstKeyFound(HttpOf(rpc))) = ""
                       /\ IF ~http.threw /\ Len(http.events) > 0
                            THEN /\ Len(route') = 1
                                 /\ route'[1].events = http.events
                                 /\ route'[1].project = rpc.projectId
                            ELSE route' = <<>> /\ resp'.status = 200
    /\ IngestRespond /\ route[1].rpc =>
          /\ resp'.status = 200
          /\ resp'.id = RpcIdOwed(calls)

\* C32: RPC capture outcomes: captureEnvelope answers 400 for a DSN without
\* public key or project id, 401 for a key unknown to the registry and 400
\* for a DSN project that is not the key's project, writing nothing; any
\* other call is answered 200 with the event id of the first event ingested
\* successfully and leaves the shard as the HTTP envelope endpoint does.
RpcOutcomes == [][RpcOutcomesOn(RpcInputs)]_vars

\* the same over the calls whose event items carry objects
RpcOutcomesOfObjects ==
    [][RpcOutcomesOn({rpc \in RpcInputs :
                         \A k \in 1..Len(rpc.items) :
                            rpc.items[k].type \in {"event", "transaction"} =>
                               rpc.items[k].payload.kind = "object"})]_vars

----------------------------------------------------------------------------
(* Calls in flight on one shard                                             *)

----------------------------------------------------------------------------
(* Arrival order: the ingests of one shard with the order they arrived in   *)

\* an ingest arrives: the issue of its fingerprint and the server's time
Arrive(event) ==
    /\ handleIngest(event)
    /\ arrivals' = Append(arrivals,
                      [issueId |-> (CHOOSE r \in issues' : r.fingerprint = FingerprintOf[event]).id,
                       at |-> now])

ArrivalNext ==
    \/ Tick /\ UNCHANGED <<routeVars, manage, registryVars, statusSet, sharding, arrivals>>
    \/ \E event \in EventInputs :
          Arrive(event) /\ UNCHANGED <<routeVars, manage, registryVars, statusSet, sharding>>
    \/ \E p \in pending : handleIngestResume(p) /\ UNCHANGED <<routeVars, manage, registryVars, statusSet, sharding, arrivals>>

ArrivalSpec == Init /\ [][ArrivalNext]_vars

\* the place in the order of arrival of the latest ingest of an issue
LastArrival(issueId) ==
    CHOOSE k \in 1..Len(arrivals) :
       /\ arrivals[k].issueId = issueId
       /\ \A l \in (k + 1)..Len(arrivals) : arrivals[l].issueId # issueId

\* get_issues with the default sort, no filter, no cursor and no limit
DefaultListings == handleGetIssues("", "", <<>>, 0)

\* every ingest set last_seen of its issue to the server's time
SeenAtArrival ==
    \A i \in issues : i.last_seen = arrivals[LastArrival(i.id)].at

\* C34 as stated: every ingest sets last_seen to the server's time of the
\* ingest, and get_issues with the default sort lists the issues in the order
\* of their most recent arrival, the latest first.
ListedInArrivalOrder ==
    /\ SeenAtArrival
    /\ \A r \in DefaultListings :
          /\ Len(r.issues) = Cardinality(issues)
          /\ \A k \in 1..Len(r.issues), l \in 1..Len(r.issues) :
                k < l => LastArrival(r.issues[k].id) > LastArrival(r.issues[l].id)

\* C34: every ingest sets last_seen of its issue to the server's time of the
\* ingest, whatever the event's timestamp, and get_issues with the default
\* sort lists the issues by the server's time of their most recent arrival,
\* the latest first; issues whose most recent ingests arrived at the same
\* time of the server come in either order.
ListedByArrivalTime ==
    /\ SeenAtArrival
    /\ \A r \in DefaultListings :
          /\ Len(r.issues) = Cardinality(issues)
          /\ \A k \in 1..Len(r.issues), l \in 1..Len(r.issues) :
                k < l => /\ arrivals[LastArrival(r.issues[k].id)].at
                              >= arrivals[LastArrival(r.issues[l].id)].at
                         /\ LastArrival(r.issues[k].id) < LastArrival(r.issues[l].id) =>
                               r.issues[k].lastSeen = r.issues[l].lastSeen

\* the issue created first was seen again after the second one, by an event
\* whose timestamp lies before the time it arrived at: it is listed first
OlderIssueSeenLast ==
    \E i \in issues, j \in issues :
       /\ i.id < j.id
       /\ i.last_seen > j.last_seen
       /\ \E e \in events : /\ e.issue_id = i.id
                            /\ e.received_at = i.last_seen
                            /\ e.timestamp < e.received_at
       /\ \A r \in DefaultListings : r.issues[1].id = i.id

----------------------------------------------------------------------------
(* Invariants of the tables of a shard                                      *)

\* C35: event integrity: every stored event is filed under an issue the shard
\* holds, and no two stored events have the same id.
EventIntegrity ==
    /\ \A e \in events : \E i \in issues : i.id = e.issue_id
    /\ \A e \in events, f \in events : e.id = f.id => e = f

\* an ingest was refused for its event id, stored under another issue, after
\* an issue had been deleted with its events
DuplicateRefusedAfterDelete ==
    /\ last.op = "ingest"
    /\ last.status = Threw
    /\ deleted # {}
    /\ \E e \in events : e.id = last.eventId /\ e.issue_id # last.issueId

\* C36: issue bounds: every issue has a count of at least 1, a user_count of
\* at least 0 and at most its count, and was first seen no later than it was
\* last seen.
IssueBounds ==
    \A i \in issues :
       /\ i.count >= 1
       /\ i.user_count >= 0
       /\ i.user_count <= i.count
       /\ i.first_seen <= i.last_seen

\* an ingest with a user identifier has ended on an issue seen before, at a
\* later time than the issue was first seen
SeenAgainByUser ==
    /\ last.op = "ingest"
    /\ HasIdentifier(last.user)
    /\ \E i \in issues : /\ i.id = last.issueId
                         /\ i.count >= 2
                         /\ i.first_seen < i.last_seen

----------------------------------------------------------------------------
(* update_issue for an id that names no issue                               *)

\* the call is update_issue with a status for an id no issue has
UpdatesUnknownId ==
    \E issueId \in 1..MaxIngest, status \in StatusInputs \ {""} :
       /\ ~IssueExists(issues, issueId)
       /\ handleUpdateIssue(issueId, status)

\* C37: update_issue for an id that names no issue of the shard is answered
\* with a 4xx status, creates no issue and leaves the shard unchanged.
UnknownIdIsLogicalError ==
    [][UpdatesUnknownId =>
          /\ last'.status \in 400..499
          /\ UNCHANGED <<issues, events, stats, users>>]_vars

\* the same call leaves the tables of the shard as they are
UnknownIdWritesNothing ==
    [][UpdatesUnknownId => UNCHANGED <<issues, events, stats, users>>]_vars

----------------------------------------------------------------------------
(* get_issue_events: handleGetIssueEvents and the walk over its pages       *)

\* SELECT * FROM events WHERE issue_id = ? [AND timestamp < ?]; cursor is <<>>
\* when the request gives none
SelectEvents(rows, issueId, cursor) ==
    {r \in rows : /\ r.issue_id = issueId
                  /\ Len(cursor) > 0 => r.timestamp < cursor[1]}

RECURSIVE OrderByTimestampDesc(_)
\* ORDER BY timestamp DESC: every order the engine may give to rows of equal
\* timestamp
OrderByTimestampDesc(rows) ==
    IF rows = {} THEN {<<>>}
    ELSE LET tops == {r \in rows : \A q \in rows : q.timestamp <= r.timestamp}
         IN  UNION {{<<t>> \o rest : rest \in OrderByTimestampDesc(rows \ {t})} : t \in tops}

\* handleGetIssueEvents: the responses it may give.  events are the rows' data
\* parsed; ids names the rows they were parsed from; the cursor is the
\* timestamp member of the last event, undefined when the event has none
handleGetIssueEvents(issueId, cursor, limit) ==
    LET pageLimit == PageLimit(limit)
    IN  { LET rows == SqlLimit(ordered, pageLimit + 1)
              hasMore == Len(rows) > pageLimit
              page == SliceTo(rows, pageLimit)
              last_ == page[Len(page)].data
          IN  [events |-> [k \in 1..Len(page) |-> page[k].data],
               ids |-> [k \in 1..Len(page) |-> page[k].id],
               nextCursor |-> IF hasMore /\ Len(page) > 0 /\ last_.timestamp # 0
                                THEN <<last_.timestamp>> ELSE <<>>,
               hasMore |-> hasMore]
          : ordered \in OrderByTimestampDesc(SelectEvents(events, issueId, cursor)) }

RECURSIVE WalkEvents(_, _, _, _)
\* the pages of an issue from the one of `cursor` on, following next_cursor
\* while has_more is true, for at most `fuel` further requests
WalkEvents(issueId, cursor, limit, fuel) ==
    UNION { IF ~r.hasMore THEN {[events |-> r.events, ids |-> r.ids, ended |-> TRUE]}
            ELSE IF fuel = 0 THEN {[events |-> r.events, ids |-> r.ids, ended |-> FALSE]}
            ELSE {[events |-> r.events \o w.events, ids |-> r.ids \o w.ids, ended |-> w.ended]
                    : w \in WalkEvents(issueId, r.nextCursor, limit, fuel - 1)}
            : r \in handleGetIssueEvents(issueId, cursor, limit) }

EventLimitInputs == {1, 2}

\* the walk over the events of one issue returns each of them once, latest
\* timestamp first
WalkComplete(issueId) ==
    \A limit \in EventLimitInputs :
       \A w \in WalkEvents(issueId, <<>>, limit, Cardinality(events)) :
          /\ w.ended
          /\ Len(w.ids) = Cardinality(SelectEvents(events, issueId, <<>>))
          /\ {w.ids[k] : k \in 1..Len(w.ids)} = {r.id : r \in SelectEvents(events, issueId, <<>>)}
          /\ \A k \in 1..(Len(w.ids) - 1) :
                \E e \in events, f \in events :
                   /\ e.id = w.ids[k]
                   /\ f.id = w.ids[k + 1]
                   /\ e.timestamp >= f.timestamp

\* has_more comes with a cursor
CursorWithHasMore(issueId) ==
    \A limit \in EventLimitInputs, cursor \in {<<>>, <<2>>} :
       \A r \in handleGetIssueEvents(issueId, cursor, limit) :
          r.hasMore => Len(r.nextCursor) > 0

\* C38: event pagination is complete: following next_cursor through the pages
\* of get_issue_events until has_more is false returns every event of the
\* issue exactly once in descending order of timestamp, also when events share
\* a timestamp, and has_more = true comes with a next_cursor.
EventPaginationComplete ==
    \A i \in issues : WalkComplete(i.id) /\ CursorWithHasMore(i.id)

\* the same for the issues whose events all have different timestamps
EventPaginationOfDistinct ==
    \A i \in issues :
       (\A e \in events, f \in events :
           e.issue_id = i.id /\ f.issue_id = i.id /\ e # f =>
              e.timestamp # f.timestamp /\ e.data.timestamp # 0 /\ f.data.timestamp # 0)
       => WalkComplete(i.id) /\ CursorWithHasMore(i.id)

----------------------------------------------------------------------------
(* get_issues with its filters: the route GET /:slug/issues and              *)
(* handleGetIssues.  The route sends status, level, environment, query,     *)
(* sort, cursor and limit; the handler reads all of them but environment.   *)

\* AND level = ?; level is <<>> when the request gives none
SelectLevel(rows, level) == {r \in rows : level # None => r.level = level}

\* the responses to a request with these filters, the default sort, no cursor
\* and no limit; the body's environment is not among the members read
getIssues(status, level, environment) ==
    GetIssuesOn(SelectLevel(issues, level), status, "", <<>>, 0)

LevelInputs == {None, S_error, S_warning}
EnvironmentInputs == {None, S_prod, S_staging}

FilterNext ==
    \/ \E event \in FilterInputs :
          handleIngest(event) /\ UNCHANGED <<routeVars, manage, registryVars, statusSet, sharding, arrivals>>
    \/ \E issueId \in 1..MaxIngest :
          /\ updateIssue(issueId, "resolved")
          /\ UNCHANGED <<nAdmin, routeVars, manage, registryVars, statusSet, sharding, arrivals>>
    \/ Tick /\ UNCHANGED <<routeVars, manage, registryVars, statusSet, sharding, arrivals>>

FilterSpec == Init /\ [][FilterNext]_vars

\* the issue has an event of this environment
SeenIn(issueId, environment) ==
    \E e \in events : e.issue_id = issueId /\ e.data.environment = environment

\* every issue returned has the status and the level asked for
StatusAndLevelApplied ==
    \A status \in {"", "unresolved", "resolved"}, level \in LevelInputs,
       environment \in EnvironmentInputs :
       \A r \in getIssues(status, level, environment) :
          \A k \in 1..Len(r.issues) :
             /\ status # "" => r.issues[k].status = status
             /\ level # None => r.issues[k].level = level

\* C39: get_issues applies every filter it is given: every issue returned has
\* the status and the level asked for, and when an environment is given no
\* issue is returned that has no event of that environment.
FiltersApplied ==
    /\ StatusAndLevelApplied
    /\ \A status \in {"", "unresolved", "resolved"}, level \in LevelInputs,
          environment \in EnvironmentInputs :
          \A r \in getIssues(status, level, environment) :
             \A k \in 1..Len(r.issues) :
                environment # None => SeenIn(r.issues[k].id, environment)

----------------------------------------------------------------------------
(* The role given at registration                                           *)

Admins == {u \in accounts : u.role = "admin"}

\* C40: the first user registered in an empty registry is the only automatic
\* admin: at most one user has the role admin through registration, also
\* when two registrations are in flight at the same time, and every other
\* user has the role member.
OneAutomaticAdmin ==
    /\ Cardinality(Admins) <= 1
    /\ accounts # {} => Cardinality(Admins) = 1
    /\ \A u \in accounts : u.role \in {"admin", "member"}

\* the first registration to end in an empty registry stores an admin, and
\* no role but admin and member is stored
FirstUserIsAdmin ==
    /\ accounts # {} => Admins # {}
    /\ \A u \in accounts : u.role \in {"admin", "member"}

====
